---- MODULE Spec2Model ----
(***************************************************************************)
(* A model of simple-networking's Request lifecycle: Request.start() with  *)
(* its middleware hooks, the XMLHttpRequest callbacks of Request.fetch(),  *)
(* Request.cancel(), RequestBag and Server.build.                          *)
(*                                                                         *)
(* JavaScript runs each piece of code between two awaits atomically, so    *)
(* each action below is one such piece: it starts where a promise the      *)
(* code awaits settles (or where the caller calls in) and runs to the next *)
(* await or to the point where start() settles.                            *)
(***************************************************************************)
EXTENDS Integers, Sequences, FiniteSets, TLC

\* ---------------------------------------------------------------- bounds
NumReqs == 3
NumMws == 2
MaxRetries == 2
MaxCancels == 2
MaxStarts == 2
MaxBagCancels == 1
MaxBagLen == 2
MaxKeys == 2

\* ------------------------------------------------------ program constants
TimeoutGET == 10000
TimeoutOther == 150000
TimeoutEscalated == 30000
TimeoutUpload == 60000
UploadThreshold == 1000000000

Reqs == 1..NumReqs
Mws == 1..NumMws
Frames == {1, 2}
Owners == {"o1", "o2"}
NoBag == "none"
Undefined == -1

HookNames == {"onBeforeRequest", "shouldRetryError", "shouldRetryServerError",
              "shouldRetryNetworkError", "onFatalNetworkError", "onNetworkResponse"}

\* hooks[m] holds FatalThrows when m's onFatalNetworkError hook throws
FatalThrows == "onFatalNetworkError throws"

VARIABLES
    req,      \* req[r]: the fields of Request r
    fr,       \* fr[<<r, f>>]: invocation f of r.start(): its position and locals
    bags,     \* bags[o]: the RequestBag of owner o in RequestBag.bags
    hooks,    \* hooks[m]: the hooks middleware m implements
    shared,   \* Request.sharedMiddlewares
    server    \* the Server: its host and its default middlewares

vars == <<req, fr, bags, hooks, shared, server>>

\* ------------------------------------------------------------- helpers
Max(a, b) == IF a >= b THEN a ELSE b

Range(sq) == {sq[k] : k \in 1..Len(sq)}

SeqOf(lo, hi) == [k \in 1..(hi - lo + 1) |-> lo + k - 1]

IdleFrame == [pc |-> "idle", i |-> 0, retry |-> FALSE, err |-> "none",
              timeout |-> 0, out |-> "none", value |-> "none", url |-> <<>>]

\* Mutant: the Request's own middlewares first
getMiddlewares_OwnFirst(q) == q.middlewares \o shared

\* Request.getMiddlewares
getMiddlewares(q) == shared \o q.middlewares

\* The position of the first middleware after position i that implements
\* hook h, 0 when there is none: the for loops over getMiddlewares() with
\* their `if (middleware.h)` tests.
NextHook(q, h, i) ==
    LET ms == getMiddlewares(q)
        cand == {j \in (i + 1)..Len(ms) : h \in hooks[ms[j]]}
    IN  IF cand = {} THEN 0 ELSE CHOOSE j \in cand : \A k \in cand : j <= k

\* The middlewares a loop `for (const middleware of this.getMiddlewares())
\* if (middleware.h) middleware.h(...)` invokes, in the order it invokes them
Invoked(q, h) == SelectSeq(getMiddlewares(q), LAMBDA m : h \in hooks[m])

\* Mutant: removeRequest without `if (index !== -1)`: splice(-1, 1) removes
\* the last member
removeRequest_NoIndexTest(requests, r) ==
    LET idx == {k \in 1..Len(requests) : requests[k] = r}
    IN  IF idx = {}
        THEN SubSeq(requests, 1, Len(requests) - 1)
        ELSE LET k == CHOOSE x \in idx : \A y \in idx : x <= y
             IN  SubSeq(requests, 1, k - 1) \o SubSeq(requests, k + 1, Len(requests))

\* RequestBag.removeRequest: findIndex, then splice of that one index
removeRequest(requests, r) ==
    LET idx == {k \in 1..Len(requests) : requests[k] = r}
    IN  IF idx = {} THEN requests
        ELSE LET k == CHOOSE x \in idx : \A y \in idx : x <= y
             IN  SubSeq(requests, 1, k - 1) \o SubSeq(requests, k + 1, Len(requests))

\* RequestBag.addRequest
addRequest(requests, r) == Append(requests, r)

\* A piece of start() works on s = [r, f, q, fr, b]: the request's id, the
\* invocation's id, the request's fields, the invocation's locals and the bags.

\* this.bag?.removeRequest(this)
Deregister(s) ==
    IF s.q.bag = NoBag THEN s
    ELSE [s EXCEPT !.b[s.q.bag].requests = removeRequest(@, s.r)]

\* start() settles: it returns a RequestResult or throws
Settle(s, outcome) ==
    [s EXCEPT !.fr = [IdleFrame EXCEPT !.pc = "done", !.out = outcome]]

\* Mutant: the notification without its didFailNetwork guard
notifyFatal_Unguarded(q) ==
    LET ms == getMiddlewares(q)
    IN  [q EXCEPT !.didFailNetwork = TRUE,
                  !.fatal = [m \in Mws |->
                      @[m] + Cardinality({j \in 1..Len(ms) :
                          ms[j] = m /\ "onFatalNetworkError" \in hooks[m]})]]

\* The middlewares whose onFatalNetworkError hook the notification loop
\* invokes: the hooks are called synchronously and without a try, so the
\* first one that throws ends the loop
Notified(q) ==
    LET inv == Invoked(q, "onFatalNetworkError")
        thr == {k \in 1..Len(inv) : FatalThrows \in hooks[inv[k]]}
    IN  IF thr = {} THEN inv
        ELSE SubSeq(inv, 1, CHOOSE k \in thr : \A x \in thr : k <= x)

\* The notification, made on the fields q, throws the exception of a hook
HookThrows(q) ==
    /\ ~q.didFailNetwork
    /\ \E m \in Range(Invoked(q, "onFatalNetworkError")) : FatalThrows \in hooks[m]

\* `if (!this.didFailNetwork) { this.didFailNetwork = true; for (...)
\* middleware.onFatalNetworkError(...) }`, on the fields q of a Request;
\* q.fatal[m] counts the invocations of middleware m's hook and q.notified
\* lists the middlewares in the order their hook was invoked
notifyFatal(q) ==
    IF q.didFailNetwork THEN q
    ELSE LET ms == Notified(q)
         IN  [q EXCEPT !.didFailNetwork = TRUE,
                       !.notified = @ \o ms,
                       !.fatal = [m \in Mws |->
                           @[m] + Cardinality({j \in 1..Len(ms) : ms[j] = m})]]

\* r is a member of the bag it was given, in the bags b
Member(b, q, r) ==
    /\ q.bag # NoBag
    /\ \E k \in 1..Len(b[q.bag].requests) : b[q.bag].requests[k] = r

\* The notification as start() makes it; q.sawMember tells whether the hooks
\* it invoked ran while the Request was a member of its bag
NotifyFatal(s) ==
    [s EXCEPT !.q = [notifyFatal(@) EXCEPT
                        !.sawMember = IF s.q.didFailNetwork THEN @
                                      ELSE Member(s.b, s.q, s.r)]]

\* A retry poll of kind k starts: q.poll and q.last record the kind of the
\* latest poll and the position of the last hook it invoked (0: none), and
\* q.approved counts the polls in which a hook answered true
PollStarts(s, k, j) ==
    [s EXCEPT !.q.poll = k, !.q.last = j,
              !.fr.i = j, !.fr.retry = FALSE,
              !.fr.pc = IF j = 0 THEN @
                        ELSE CASE k = "nw" -> "nwpoll" [] k = "err" -> "errpoll"
                               [] OTHER -> "srvpoll"]

\* The awaited hook of the poll answered ans: `retry = retry || (await ...)`
Answered(s, ans) ==
    [s EXCEPT !.fr.retry = @ \/ (ans = "true"),
              !.q.approved = IF ans = "true" /\ ~s.fr.retry THEN @ + 1 ELSE @]

\* The poll goes on to await the hook at position j
NextAwait(s, j) == [s EXCEPT !.fr.i = j, !.q.last = j]

\* Mutant: the catch block deregisters before it notifies
FailFatally_DeregistersFirst(s) == Settle(NotifyFatal(Deregister(s)), s.fr.err)

\* The end of the catch block of start(): notify, deregister, throw. A hook
\* that throws in the notification takes start() out of the catch block with
\* its own exception, before the deregistration
FailFatally(s) ==
    IF HookThrows(s.q) THEN Settle(NotifyFatal(s), "hook_error")
    ELSE Settle(Deregister(NotifyFatal(s)), s.fr.err)

\* Mutant: the catch block polls the hooks whatever shouldRetry says
CatchBlock_Ungated(s) ==
    LET j == IF ~s.q.didFailNetwork
             THEN NextHook(s.q, "shouldRetryNetworkError", 0) ELSE 0
        s2 == PollStarts(s, "nw", j)
    IN  IF j # 0 THEN s2 ELSE FailFatally(s2)

\* Mutant: the escalation stores 30s, whatever the attempt's timeout was
CatchBlock_FlatEscalation(s) ==
    LET s1 == IF s.fr.err = "network_timeout"
              THEN [s EXCEPT !.q.timeout = TimeoutEscalated]
              ELSE s
        j == IF s1.q.shouldRetry /\ ~s1.q.didFailNetwork
             THEN NextHook(s1.q, "shouldRetryNetworkError", 0) ELSE 0
        s2 == PollStarts(s1, "nw", j)
    IN  IF j # 0 THEN s2 ELSE FailFatally(s2)

\* Mutant: the escalation after any failure of the attempt
CatchBlock_EscalatesAlways(s) ==
    LET s1 == [s EXCEPT !.q.timeout = Max(s.fr.timeout, TimeoutEscalated)]
        j == IF s1.q.shouldRetry /\ ~s1.q.didFailNetwork
             THEN NextHook(s1.q, "shouldRetryNetworkError", 0) ELSE 0
        s2 == PollStarts(s1, "nw", j)
    IN  IF j # 0 THEN s2 ELSE FailFatally(s2)

\* The catch block of start(), entered with the error in s.fr.err, up to the
\* first shouldRetryNetworkError hook it awaits
CatchBlock(s) ==
    LET s1 == IF s.fr.err = "network_timeout"
              THEN [s EXCEPT !.q.timeout = Max(s.fr.timeout, TimeoutEscalated)]
              ELSE s
        j == IF s1.q.shouldRetry /\ ~s1.q.didFailNetwork
             THEN NextHook(s1.q, "shouldRetryNetworkError", 0) ELSE 0
        s2 == PollStarts(s1, "nw", j)
    IN  IF j # 0 THEN s2 ELSE FailFatally(s2)

\* Mutant: `this.timeout || ...`, which takes a timeout of 0 for an unset one
EffectiveTimeout_ZeroIsUnset(q) ==
    LET t == IF q.timeout # Undefined /\ q.timeout # 0 THEN q.timeout
             ELSE IF q.method = "GET" THEN TimeoutGET ELSE TimeoutOther
    IN  IF q.body = "FormData" /\ q.size > UploadThreshold
        THEN Max(t, TimeoutUpload) ELSE t

\* Mutant: no floor for large uploads
EffectiveTimeout_NoUploadFloor(q) ==
    IF q.timeout # Undefined THEN q.timeout
    ELSE IF q.method = "GET" THEN TimeoutGET ELSE TimeoutOther

\* The timeout of an attempt: `this.timeout ?? (GET ? 10s : 150s)`, raised to
\* 60s for a FormData body over the size threshold
EffectiveTimeout(q) ==
    LET t == IF q.timeout # Undefined THEN q.timeout
             ELSE IF q.method = "GET" THEN TimeoutGET ELSE TimeoutOther
    IN  IF q.body = "FormData" /\ q.size > UploadThreshold
        THEN Max(t, TimeoutUpload) ELSE t

\* A query is [given, encoded, vals]: given tells whether this.query is
\* truthy, encoded whether encodeObject returns an object for it (not null or
\* undefined), and vals[k] is the value of the k-th key of that object, in key
\* order: "undefined" or a value. Key k stands for itself.
NoQuery == [given |-> FALSE, encoded |-> FALSE, vals |-> <<>>]

\* Strings are sequences of tokens; encodeURIComponent(x) is the token [enc |-> x]
encodeURIComponent(x) == [enc |-> x]

\* keys.filter(k => query[k] !== undefined).map(k => enc(k) + "=" + enc(query[k]))
RECURSIVE Pairs(_, _)
Pairs(vals, k) ==
    IF k > Len(vals) THEN <<>>
    ELSE IF vals[k] = "undefined" THEN Pairs(vals, k + 1)
         ELSE <<<<encodeURIComponent(k), "=", encodeURIComponent(vals[k])>>>>
                  \o Pairs(vals, k + 1)

\* Array.prototype.join("&") on an array of strings
RECURSIVE Join(_)
Join(parts) ==
    IF parts = <<>> THEN <<>>
    ELSE IF Len(parts) = 1 THEN Head(parts)
         ELSE Head(parts) \o <<"&">> \o Join(Tail(parts))

\* The queryString of start()
QueryString(query) ==
    IF query.given /\ query.encoded /\ Len(query.vals) > 0
    THEN <<"?">> \o Join(Pairs(query.vals, 1))
    ELSE <<>>

\* The url start() passes to fetch()
Url(q) ==
    <<"host">> \o (IF q.version # Undefined THEN <<"/v", q.version>> ELSE <<>>)
               \o <<"path">> \o QueryString(q.query)

\* The code of the SimpleError with which a callback of the XHR rejects the
\* promise of fetch()
Rejection(callback) ==
    CASE callback = "ontimeout" -> "network_timeout"
      [] callback = "onerror" -> "network_error"
      [] callback = "onabort" -> "network_abort"

\* Mutant: fetch() that keeps the handle of a call already referred to
Fetch_KeepsFirstHandle(s, in) ==
    CASE in.send = "sent" ->
            [s EXCEPT !.q.XMLHttpRequest = IF @ = 0 THEN s.f ELSE @,
                      !.q.outstanding = @ + 1, !.fr.pc = "inflight"]
      [] in.send = "throw_send" ->
            [s EXCEPT !.q.XMLHttpRequest = s.f,
                      !.fr.pc = "rejected", !.fr.err = "send_error"]
      [] OTHER ->
            [s EXCEPT !.fr.pc = "rejected", !.fr.err = "send_error"]

\* Request.fetch up to the promise it returns. in.send is what the XHR calls
\* do: "sent", "throw_open" (new/open/setRequestHeader throws, before the
\* handle is assigned) or "throw_send" (send throws, after it is assigned).
Fetch(s, in) ==
    CASE in.send = "sent" ->
            [s EXCEPT !.q.XMLHttpRequest = s.f, !.q.outstanding = @ + 1,
                      !.fr.pc = "inflight"]
      [] in.send = "throw_send" ->
            [s EXCEPT !.q.XMLHttpRequest = s.f,
                      !.fr.pc = "rejected", !.fr.err = "send_error"]
      [] OTHER ->
            [s EXCEPT !.fr.pc = "rejected", !.fr.err = "send_error"]

\* Mutant: the encoding of the body and the query outside the try block
AttemptBody_EncodingUncaught(s, in) ==
    LET s1 == [s EXCEPT !.fr.timeout = EffectiveTimeout(s.q), !.fr.i = 0,
                        !.fr.retry = FALSE, !.fr.err = "none"]
    IN  IF in.enc = "throw"
        THEN Settle(s1, "encode_error")
        ELSE Fetch([s1 EXCEPT !.fr.url = Url(s.q)], in)

\* start() from the effective timeout to `await this.fetch(...)`; in.enc is
\* "throw" when the form-url-encoded body encodes to null/undefined or the
\* encoder throws on the query
AttemptBody(s, in) ==
    LET s1 == [s EXCEPT !.fr.timeout = EffectiveTimeout(s.q), !.fr.i = 0,
                        !.fr.retry = FALSE, !.fr.err = "none"]
    IN  IF in.enc = "throw"
        THEN CatchBlock([s1 EXCEPT !.fr.err = "encode_error"])
        ELSE Fetch([s1 EXCEPT !.fr.url = Url(s.q)], in)

\* start() from its first line: the onBeforeRequest loop up to its first await
BeginAttempt(s, in) ==
    LET j == NextHook(s.q, "onBeforeRequest", 0)
    IN  IF j # 0
        THEN [s EXCEPT !.fr = [IdleFrame EXCEPT !.pc = "before", !.i = j]]
        ELSE AttemptBody(s, in)

\* `return await this.start()`: the pipeline runs again in the same position of
\* the caller's promise chain
Restart(s, in) == BeginAttempt([s EXCEPT !.q.retries = @ + 1], in)

\* Mutant: the attempt goes on as soon as one onBeforeRequest hook resolved
BeforeHookResolved_OneHookOnly(s, ans, in) ==
    IF ans = "throw" THEN Settle(s, "hook_error")
    ELSE AttemptBody(s, in)

\* An onBeforeRequest hook resolved (ans = "ok") or threw
BeforeHookResolved(s, ans, in) ==
    IF ans = "throw" THEN Settle(s, "hook_error")
    ELSE LET j == NextHook(s.q, "onBeforeRequest", s.fr.i)
         IN  IF j # 0 THEN [s EXCEPT !.fr.i = j] ELSE AttemptBody(s, in)

\* What a retry hook did to the request while it ran
HookEffect(s, eff) ==
    IF eff = "noRetry" THEN [s EXCEPT !.q.shouldRetry = FALSE] ELSE s

\* Mutant: the poll restarts on an approval without looking at shouldRetry
NwHookResolved_NoRecheck(s, ans, eff, in) ==
    IF ans = "throw" THEN Settle(HookEffect(s, eff), "hook_error")
    ELSE
    LET s1 == Answered(HookEffect(s, eff), ans)
        stop == ~s1.q.shouldRetry \/ s1.q.didFailNetwork
        j == IF s1.fr.retry THEN 0
             ELSE NextHook(s1.q, "shouldRetryNetworkError", s1.fr.i)
    IN  IF ~stop /\ j # 0 THEN NextAwait(s1, j)
        ELSE IF s1.fr.retry THEN Restart(s1, in) ELSE FailFatally(s1)

\* Mutant: the poll without its break test
NwHookResolved_NoBreak(s, ans, eff, in) ==
    IF ans = "throw" THEN Settle(HookEffect(s, eff), "hook_error")
    ELSE
    LET s1 == Answered(HookEffect(s, eff), ans)
        j == IF s1.fr.retry THEN 0
             ELSE NextHook(s1.q, "shouldRetryNetworkError", s1.fr.i)
    IN  IF j # 0 THEN NextAwait(s1, j)
        ELSE IF s1.fr.retry /\ s1.q.shouldRetry /\ ~s1.q.didFailNetwork
             THEN Restart(s1, in)
             ELSE FailFatally(s1)

\* Mutant: the core allows one retry after a network failure and no more
NwHookResolved_OneRetry(s, ans, eff, in) ==
    IF ans = "throw" THEN Settle(HookEffect(s, eff), "hook_error")
    ELSE
    LET s1 == Answered(HookEffect(s, eff), ans)
        stop == ~s1.q.shouldRetry \/ s1.q.didFailNetwork
        j == IF s1.fr.retry THEN 0
             ELSE NextHook(s1.q, "shouldRetryNetworkError", s1.fr.i)
    IN  IF ~stop /\ j # 0 THEN NextAwait(s1, j)
        ELSE IF s1.fr.retry /\ s1.q.shouldRetry /\ ~s1.q.didFailNetwork
                /\ s1.q.retries = 0
             THEN Restart(s1, in)
             ELSE FailFatally(s1)

\* The network-error poll from the point where the awaited hook settled:
\* `retry = retry || (await hook)`, the break test, the rest of the loop up to
\* the next hook it awaits, and the code after the loop
NwHookResolved(s, ans, eff, in) ==
    IF ans = "throw" THEN Settle(HookEffect(s, eff), "hook_error")
    ELSE
    LET s1 == Answered(HookEffect(s, eff), ans)
        stop == ~s1.q.shouldRetry \/ s1.q.didFailNetwork
        \* `retry || (await ...)` does not evaluate its right side once retry
        \* is true, so no later hook is invoked
        j == IF s1.fr.retry THEN 0
             ELSE NextHook(s1.q, "shouldRetryNetworkError", s1.fr.i)
    IN  IF ~stop /\ j # 0 THEN NextAwait(s1, j)
        ELSE IF s1.fr.retry /\ s1.q.shouldRetry /\ ~s1.q.didFailNetwork
             THEN Restart(s1, in)
             ELSE FailFatally(s1)

\* Mutant: the decodable-error poll gated by shouldRetry alone
ErrorPoll_NeedsShouldRetry(s) ==
    LET j == IF s.q.shouldRetry
             THEN NextHook(s.q, "shouldRetryError", 0) ELSE 0
        s1 == PollStarts(s, "err", j)
    IN  IF j # 0 THEN s1 ELSE Settle(Deregister(s1), s.fr.err)

\* The decodable-error path of start() from `if (this.shouldRetry ||
\* this.allowErrorRetry)`, with the decoded error in s.fr.err
ErrorPoll(s) ==
    LET j == IF s.q.shouldRetry \/ s.q.allowErrorRetry
             THEN NextHook(s.q, "shouldRetryError", 0) ELSE 0
        s1 == PollStarts(s, "err", j)
    IN  IF j # 0 THEN s1 ELSE Settle(Deregister(s1), s.fr.err)

ErrHookResolved(s, ans, eff, in) ==
    IF ans = "throw" THEN Settle(HookEffect(s, eff), "hook_error")
    ELSE
    LET s1 == Answered(HookEffect(s, eff), ans)
        j == IF s1.fr.retry THEN 0
             ELSE NextHook(s1.q, "shouldRetryError", s1.fr.i)
    IN  IF j # 0 THEN NextAwait(s1, j)
        ELSE IF s1.fr.retry /\ (s1.q.shouldRetry \/ s1.q.allowErrorRetry)
             THEN Restart(s1, in)
             ELSE Settle(Deregister(s1), s1.fr.err)

\* Mutant: the server-error poll gated like the decodable-error poll
retryOrThrowServerError_ErrorRetryCounts(s) ==
    LET j == IF s.q.shouldRetry \/ s.q.allowErrorRetry
             THEN NextHook(s.q, "shouldRetryServerError", 0) ELSE 0
        s1 == PollStarts(s, "srv", j)
    IN  IF j # 0 THEN s1 ELSE Settle(Deregister(s1), s.fr.err)

\* Mutant: a server error that is not retried is notified as a fatal
\* network error
retryOrThrowServerError_NotifiesFatal(s) ==
    LET j == IF s.q.shouldRetry
             THEN NextHook(s.q, "shouldRetryServerError", 0) ELSE 0
        s1 == PollStarts(s, "srv", j)
    IN  IF j # 0 THEN s1 ELSE Settle(Deregister(NotifyFatal(s1)), s.fr.err)

\* Request.retryOrThrowServerError
retryOrThrowServerError(s) ==
    LET j == IF s.q.shouldRetry
             THEN NextHook(s.q, "shouldRetryServerError", 0) ELSE 0
        s1 == PollStarts(s, "srv", j)
    IN  IF j # 0 THEN s1 ELSE Settle(Deregister(s1), s.fr.err)

\* Mutant: a server error is retried whatever the hooks answered
SrvHookResolved_RetriesUnasked(s, ans, eff, in) ==
    IF ans = "throw" THEN Settle(HookEffect(s, eff), "hook_error")
    ELSE
    LET s1 == Answered(HookEffect(s, eff), ans)
        j == IF s1.fr.retry THEN 0
             ELSE NextHook(s1.q, "shouldRetryServerError", s1.fr.i)
    IN  IF j # 0 THEN NextAwait(s1, j)
        ELSE IF s1.q.shouldRetry
             THEN Restart(s1, in)
             ELSE Settle(Deregister(s1), s1.fr.err)

SrvHookResolved(s, ans, eff, in) ==
    IF ans = "throw" THEN Settle(HookEffect(s, eff), "hook_error")
    ELSE
    LET s1 == Answered(HookEffect(s, eff), ans)
        j == IF s1.fr.retry THEN 0
             ELSE NextHook(s1.q, "shouldRetryServerError", s1.fr.i)
    IN  IF j # 0 THEN NextAwait(s1, j)
        ELSE IF s1.fr.retry /\ s1.q.shouldRetry
             THEN Restart(s1, in)
             ELSE Settle(Deregister(s1), s1.fr.err)

\* `return new RequestResult(v)`: v is the decoder's value ("decoded"), the
\* parsed JSON ("json") or the response body as it came ("body")
Result(s, v) == [Settle(s, "result") EXCEPT !.fr.value = v]

\* Mutant: an error body the error decoder rejects is passed on as it was parsed
Classify_UndecodableIsDecodable(s, resp) ==
    LET serverError == retryOrThrowServerError([s EXCEPT !.fr.err = "server_error"])
    IN  IF ~resp.ok
        THEN IF resp.json
             THEN IF resp.parses
                  THEN ErrorPoll([s EXCEPT !.fr.err = "decoded_error"])
                  ELSE serverError
             ELSE serverError
        ELSE IF resp.json
             THEN IF ~resp.parses THEN serverError
                  ELSE IF s.q.decoder
                       THEN IF ~resp.decodes
                            THEN Settle(s, "decode_error")
                            ELSE Result(Deregister(s), "decoded")
                       ELSE Result(Deregister(s), "json")
             ELSE IF s.q.decoder THEN serverError
                  ELSE [Deregister(s) EXCEPT !.fr.pc = "rawawait"]

\* Mutant: a 2xx response that is not JSON gives its raw body, decoder or not
Classify_RawWhateverDecoder(s, resp) ==
    LET serverError == retryOrThrowServerError([s EXCEPT !.fr.err = "server_error"])
    IN  IF ~resp.ok
        THEN IF resp.json
             THEN IF resp.parses /\ (~s.q.errorDecoder \/ resp.decodes)
                  THEN ErrorPoll([s EXCEPT !.fr.err = "decoded_error"])
                  ELSE serverError
             ELSE serverError
        ELSE IF resp.json
             THEN IF ~resp.parses THEN serverError
                  ELSE IF s.q.decoder
                       THEN IF ~resp.decodes
                            THEN Settle(s, "decode_error")
                            ELSE Result(Deregister(s), "decoded")
                       ELSE Result(Deregister(s), "json")
             ELSE [Deregister(s) EXCEPT !.fr.pc = "rawawait"]

\* Mutant: a response decoder that throws is caught like a parse failure
Classify_DecodeFailureIsServerError(s, resp) ==
    LET serverError == retryOrThrowServerError([s EXCEPT !.fr.err = "server_error"])
    IN  IF ~resp.ok
        THEN IF resp.json
             THEN IF resp.parses /\ (~s.q.errorDecoder \/ resp.decodes)
                  THEN ErrorPoll([s EXCEPT !.fr.err = "decoded_error"])
                  ELSE serverError
             ELSE serverError
        ELSE IF resp.json
             THEN IF ~resp.parses THEN serverError
                  ELSE IF s.q.decoder
                       THEN IF ~resp.decodes
                            THEN serverError
                            ELSE Result(Deregister(s), "decoded")
                       ELSE Result(Deregister(s), "json")
             ELSE IF s.q.decoder THEN serverError
                  ELSE [Deregister(s) EXCEPT !.fr.pc = "rawawait"]

\* start() after a response arrived: the classification of the response.
\* resp.ok: status in [200,300); resp.json: Content-Type is application/json;
\* resp.parses: JSON.parse accepts the body; resp.decodes: the decoder that
\* applies (errorDecoder or decoder) accepts the parsed body.
Classify(s, resp) ==
    LET serverError == retryOrThrowServerError([s EXCEPT !.fr.err = "server_error"])
    IN  IF ~resp.ok
        THEN IF resp.json
             THEN IF resp.parses /\ (~s.q.errorDecoder \/ resp.decodes)
                  THEN ErrorPoll([s EXCEPT !.fr.err = "decoded_error"])
                  ELSE serverError
             ELSE serverError
        ELSE IF resp.json
             THEN IF ~resp.parses THEN serverError
                  ELSE IF s.q.decoder
                       THEN IF ~resp.decodes
                            THEN Settle(s, "decode_error")
                            ELSE Result(Deregister(s), "decoded")
                       ELSE Result(Deregister(s), "json")
             ELSE IF s.q.decoder THEN serverError
                  ELSE [Deregister(s) EXCEPT !.fr.pc = "rawawait"]

\* Mutant: the onNetworkResponse hooks are told of 2xx responses only
ResponseArrived_SilentOnErrors(s, resp) ==
    Classify([s EXCEPT !.q.XMLHttpRequest = 0, !.q.outstanding = @ - 1,
                       !.q.responded = IF resp.ok
                                       THEN Invoked(s.q, "onNetworkResponse")
                                       ELSE @], resp)

\* onreadystatechange with readyState 4 and a status, then start() from the
\* onNetworkResponse loop on (the hooks' return values are not used);
\* q.responded lists the middlewares whose onNetworkResponse hook the loop
\* invoked for the latest response, in order
ResponseArrived(s, resp) ==
    Classify([s EXCEPT !.q.XMLHttpRequest = 0, !.q.outstanding = @ - 1,
                       !.q.responded = Invoked(s.q, "onNetworkResponse")], resp)

\* Mutant: a timeout that rejects the promise and leaves the call running
TransportFailed_CallGoesOn(s, code) ==
    CatchBlock([s EXCEPT !.q.XMLHttpRequest = 0,
                         !.q.outstanding = IF code = "network_timeout" THEN @ ELSE @ - 1,
                         !.fr.err = code])

\* ontimeout / onerror, then the catch block of start()
TransportFailed(s, code) ==
    CatchBlock([s EXCEPT !.q.XMLHttpRequest = 0, !.q.outstanding = @ - 1,
                         !.fr.err = code])

\* The piece of start() after `await response.response` on its last line
RawBodyAwaited(s) == Result(s, "body")

\* ---------------------------------------------------------- cancellation
\* Mutant: cancel() forgets allowErrorRetry
cancel_KeepsErrorRetry(st, r) ==
    LET q == [st.req[r] EXCEPT !.shouldRetry = FALSE, !.cancels = @ + 1,
                               !.cancelThrew = FALSE]
        x == q.XMLHttpRequest
    IN  IF x # 0
        THEN IF st.fr[<<r, x>>].pc = "inflight"
             THEN [req |-> [st.req EXCEPT ![r] =
                              [q EXCEPT !.XMLHttpRequest = 0, !.outstanding = @ - 1]],
                   fr  |-> [st.fr EXCEPT ![<<r, x>>].pc = "aborted",
                                         ![<<r, x>>].err = Rejection("onabort")]]
             ELSE [req |-> [st.req EXCEPT ![r] = [q EXCEPT !.XMLHttpRequest = 0]],
                   fr  |-> st.fr]
        ELSE [req |-> [st.req EXCEPT ![r] =
                         [notifyFatal(q) EXCEPT !.cancelThrew = HookThrows(q)]],
              fr  |-> st.fr]

\* Mutant: cancel() without `this.shouldRetry = false`
cancel_KeepsShouldRetry(st, r) ==
    LET q == [st.req[r] EXCEPT !.allowErrorRetry = FALSE, !.cancels = @ + 1,
                               !.cancelThrew = FALSE]
        x == q.XMLHttpRequest
    IN  IF x # 0
        THEN IF st.fr[<<r, x>>].pc = "inflight"
             THEN [req |-> [st.req EXCEPT ![r] =
                              [q EXCEPT !.XMLHttpRequest = 0, !.outstanding = @ - 1]],
                   fr  |-> [st.fr EXCEPT ![<<r, x>>].pc = "aborted",
                                         ![<<r, x>>].err = Rejection("onabort")]]
             ELSE [req |-> [st.req EXCEPT ![r] = [q EXCEPT !.XMLHttpRequest = 0]],
                   fr  |-> st.fr]
        ELSE [req |-> [st.req EXCEPT ![r] =
                         [notifyFatal(q) EXCEPT !.cancelThrew = HookThrows(q)]],
              fr  |-> st.fr]

\* Request.cancel on request r, in st = [req, fr]. abort() on an XHR that is
\* in flight runs its onabort callback at once, which rejects the promise
\* start() awaits; on an XHR that never was sent it runs no callback.
\* q.cancelThrew tells whether the latest call of cancel() threw: the
\* exception of an onFatalNetworkError hook leaves cancel() uncaught.
cancel(st, r) ==
    LET q == [st.req[r] EXCEPT !.shouldRetry = FALSE, !.allowErrorRetry = FALSE,
                               !.cancels = @ + 1, !.cancelThrew = FALSE]
        x == q.XMLHttpRequest
    IN  IF x # 0
        THEN IF st.fr[<<r, x>>].pc = "inflight"
             THEN [req |-> [st.req EXCEPT ![r] =
                              [q EXCEPT !.XMLHttpRequest = 0, !.outstanding = @ - 1]],
                   fr  |-> [st.fr EXCEPT ![<<r, x>>].pc = "aborted",
                                         ![<<r, x>>].err = Rejection("onabort")]]
             ELSE [req |-> [st.req EXCEPT ![r] = [q EXCEPT !.XMLHttpRequest = 0]],
                   fr  |-> st.fr]
        ELSE [req |-> [st.req EXCEPT ![r] =
                         [notifyFatal(q) EXCEPT !.cancelThrew = HookThrows(q)]],
              fr  |-> st.fr]

\* RequestBag.cancel: the loop `for (const request of this.requests)
\* request.cancel()` over the members rs, which a cancel() that throws ends
RECURSIVE cancelEach(_, _)
cancelEach(st, rs) ==
    IF rs = <<>> THEN st
    ELSE LET st1 == cancel(st, Head(rs))
         IN  IF st1.req[Head(rs)].cancelThrew THEN st1
             ELSE cancelEach(st1, Tail(rs))

\* The loop of RequestBag.cancel over the members rs throws
cancelEachThrows(st, rs) ==
    \E k \in 1..Len(rs) :
        st.req[rs[k]].XMLHttpRequest = 0 /\ HookThrows(st.req[rs[k]])

\* ------------------------------------------------------------------ bags
\* bags[o].cancels counts the calls of RequestBag.cancel on the bag
NoBagYet == [exists |-> FALSE, requests |-> <<>>, cancels |-> 0]

\* Mutant: getOrCreate that calls create() whether the owner has a bag or not
getOrCreate_AlwaysCreates(b, o) ==
    [b EXCEPT ![o] = [NoBagYet EXCEPT !.exists = TRUE]]

\* RequestBag.getOrCreate, on the bags b
getOrCreate(b, o) ==
    IF b[o].exists THEN b ELSE [b EXCEPT ![o].exists = TRUE]

\* Mutant: RequestBag.cancel without `this.requests = []`
bagCancel_KeepsMembers(w, o) ==
    LET st == cancelEach([req |-> w.req, fr |-> w.fr], w.bags[o].requests)
    IN  [req |-> st.req, fr |-> st.fr,
         bags |-> [w.bags EXCEPT ![o].cancels = @ + 1]]

\* RequestBag.cancel on the bag of owner o, in w = [req, fr, bags]; when the
\* loop throws, `this.requests = []` is not reached
bagCancel(w, o) ==
    LET st0 == [req |-> w.req, fr |-> w.fr]
        st == cancelEach(st0, w.bags[o].requests)
    IN  [req |-> st.req, fr |-> st.fr,
         bags |-> [w.bags EXCEPT
                     ![o].requests = IF cancelEachThrows(st0, w.bags[o].requests)
                                     THEN @ ELSE <<>>,
                     ![o].cancels = @ + 1]]

\* Request.cancelAll(owner): `RequestBag.get(owner)?.cancel()`
cancelAll(w, o) == IF w.bags[o].exists THEN bagCancel(w, o) ELSE w

\* The fields of a Request that was not constructed yet
Blank ==
    [created |-> FALSE, method |-> "GET", body |-> "undefined", size |-> 0,
     version |-> Undefined, query |-> NoQuery,
     decoder |-> FALSE, errorDecoder |-> TRUE, timeout |-> Undefined,
     shouldRetry |-> TRUE, allowErrorRetry |-> TRUE, didFailNetwork |-> FALSE,
     XMLHttpRequest |-> 0, bag |-> NoBag, middlewares |-> <<>>,
     fatal |-> [m \in Mws |-> 0], notified |-> <<>>, responded |-> <<>>,
     sawMember |-> FALSE, cancelThrew |-> FALSE,
     outstanding |-> 0,
     poll |-> "none", approved |-> 0, last |-> 0,
     retries |-> 0, cancels |-> 0, starts |-> 0]

\* Server.middlewares, the default middlewares Server.build gives a Request
serverMiddlewares == SeqOf(2, NumMws)

\* A Server as its constructor leaves it, with default middlewares pushed
DefaultServer == [host |-> "host", middlewares |-> serverMiddlewares]

\* new Request(server, init) followed by Server.build's push of the server's
\* middlewares; init.bag is NoBag or the owner whose bag the request joins
NewRequest(init) ==
    [Blank EXCEPT !.created = TRUE, !.method = init.method, !.body = init.body,
                  !.size = init.size, !.decoder = init.decoder,
                  !.version = init.version, !.query = init.query,
                  !.timeout = init.timeout, !.bag = init.bag,
                  !.middlewares = serverMiddlewares]

DefaultInit == [method |-> "GET", body |-> "undefined", size |-> 0,
                version |-> Undefined, query |-> NoQuery,
                decoder |-> FALSE, timeout |-> Undefined, bag |-> NoBag]

\* The program's objects as a piece of caller code sees and changes them
World == [req |-> req, fr |-> fr, bags |-> bags, server |-> server]

\* `this.bag = request.bag ?? (request.owner ? RequestBag.getOrCreate(
\* request.owner) : undefined); this.bag?.addRequest(this)`, for Request r
Joined(b, init, r) ==
    IF init.bag = NoBag THEN b
    ELSE [getOrCreate(b, init.bag) EXCEPT ![init.bag].requests = addRequest(@, r)]

\* Mutant: Server.build without the push of the server's middlewares
build_NoDefaults(w, init, r) ==
    [w EXCEPT !.req[r] = [NewRequest(init) EXCEPT !.middlewares = <<>>],
              !.bags = Joined(w.bags, init, r)]

\* Server.build: `const r = new Request(this, request);
\* r.middlewares.push(...this.middlewares); return r`, r being the new Request
build(w, init, r) ==
    [w EXCEPT !.req[r] = [NewRequest(init) EXCEPT
                             !.middlewares = <<>> \o w.server.middlewares],
              !.bags = Joined(w.bags, init, r)]

\* r.start() called by the caller, up to its first await; in: see Inputs
start(w, r, in) ==
    LET s == BeginAttempt([r |-> r, f |-> 1,
                           q |-> [w.req[r] EXCEPT !.starts = @ + 1],
                           fr |-> IdleFrame, b |-> w.bags], in)
    IN  [w EXCEPT !.req[r] = s.q, !.fr[<<r, 1>>] = s.fr, !.bags = s.b]

\* Server.request as the CommonJS build has it: `const r = new Request(this,
\* request); r.middlewares.push(...this.middlewares); return r.start()`
request(w, init, r, in) ==
    LET q == [NewRequest(init) EXCEPT !.middlewares = <<>> \o w.server.middlewares]
        s == BeginAttempt([r |-> r, f |-> 1, q |-> [q EXCEPT !.starts = @ + 1],
                           fr |-> IdleFrame, b |-> Joined(w.bags, init, r)], in)
    IN  [w EXCEPT !.req[r] = s.q, !.fr[<<r, 1>>] = s.fr, !.bags = s.b]

\* --------------------------------------------------------------- inputs
\* What the encoder and the XHR calls of the next attempt do
Inputs(q) == [enc : IF q.body = "urlencoded" \/ q.query.given
                    THEN {"ok", "throw"} ELSE {"ok"},
              send : {"sent", "throw_open", "throw_send"}]
NoInput == [enc |-> "ok", send |-> "sent"]
\* The same, needed only when the hook's answer can restart the pipeline
InputsAfter(q, ans) == IF ans = "true" THEN Inputs(q) ELSE {NoInput}
Responses == [ok : BOOLEAN, json : BOOLEAN, parses : BOOLEAN, decodes : BOOLEAN]
HookAnswers == {"true", "false", "throw"}
HookEffects == {"none", "noRetry"}
HookProfiles == {{}, HookNames, HookNames \ {"onBeforeRequest", "onNetworkResponse"}}

Bundle(r, f) == [r |-> r, f |-> f, q |-> req[r], fr |-> fr[<<r, f>>], b |-> bags]

Commit(s) ==
    /\ req' = [req EXCEPT ![s.r] = s.q]
    /\ fr' = [fr EXCEPT ![<<s.r, s.f>>] = s.fr]
    /\ bags' = s.b
    /\ UNCHANGED <<hooks, shared, server>>

Running(r, f) == fr[<<r, f>>].pc \notin {"idle", "done"}

\* -------------------------------------------------------------- actions
\* The caller calls r.start() while no other invocation of it is running
Start(r) ==
    /\ req[r].created
    /\ req[r].starts < MaxStarts
    /\ \A f \in Frames : ~Running(r, f)
    /\ \E in \in Inputs(req[r]) :
         Commit(BeginAttempt([Bundle(r, 1) EXCEPT !.q.starts = @ + 1,
                                                  !.fr = IdleFrame], in))

BeforeHookResolves(r, f) ==
    /\ fr[<<r, f>>].pc = "before"
    /\ \E ans \in {"ok", "throw"} : \E in \in InputsAfter(req[r], IF ans = "ok" THEN "true" ELSE ans) :
         Commit(BeforeHookResolved(Bundle(r, f), ans, in))

\* The promise of a fetch() whose XHR calls threw is rejected
SendRejected(r, f) ==
    /\ fr[<<r, f>>].pc = "rejected"
    /\ Commit(CatchBlock(Bundle(r, f)))

TransportResponds(r, f) ==
    /\ fr[<<r, f>>].pc = "inflight"
    /\ \E resp \in Responses : Commit(ResponseArrived(Bundle(r, f), resp))

TransportFails(r, f) ==
    /\ fr[<<r, f>>].pc = "inflight"
    /\ \E callback \in {"ontimeout", "onerror"} :
         Commit(TransportFailed(Bundle(r, f), Rejection(callback)))

\* start() resumes after the abort rejected the promise of fetch()
AbortRejected(r, f) ==
    /\ fr[<<r, f>>].pc = "aborted"
    /\ Commit(CatchBlock(Bundle(r, f)))

\* A hook may approve a retry only while the model's bound on retries allows
MayAnswer(r, ans) == ans = "true" => req[r].retries < MaxRetries

NwHookResolves(r, f) ==
    /\ fr[<<r, f>>].pc = "nwpoll"
    /\ \E ans \in HookAnswers, eff \in HookEffects : \E in \in InputsAfter(req[r], ans) :
         /\ MayAnswer(r, ans)
         /\ Commit(NwHookResolved(Bundle(r, f), ans, eff, in))

ErrHookResolves(r, f) ==
    /\ fr[<<r, f>>].pc = "errpoll"
    /\ \E ans \in HookAnswers, eff \in HookEffects : \E in \in InputsAfter(req[r], ans) :
         /\ MayAnswer(r, ans)
         /\ Commit(ErrHookResolved(Bundle(r, f), ans, eff, in))

SrvHookResolves(r, f) ==
    /\ fr[<<r, f>>].pc = "srvpoll"
    /\ \E ans \in HookAnswers, eff \in HookEffects : \E in \in InputsAfter(req[r], ans) :
         /\ MayAnswer(r, ans)
         /\ Commit(SrvHookResolved(Bundle(r, f), ans, eff, in))

RawBodyResolves(r, f) ==
    /\ fr[<<r, f>>].pc = "rawawait"
    /\ Commit(RawBodyAwaited(Bundle(r, f)))

\* The caller calls r.cancel()
Cancel(r) ==
    /\ req[r].created
    /\ req[r].cancels < MaxCancels
    /\ LET st == cancel([req |-> req, fr |-> fr], r)
       IN  req' = st.req /\ fr' = st.fr
    /\ UNCHANGED <<bags, hooks, shared, server>>

\* The caller calls Request.cancelAll(o)
CancelAll(o) ==
    /\ bags[o].cancels < MaxBagCancels
    /\ \A k \in 1..Len(bags[o].requests) :
          req[bags[o].requests[k]].cancels < MaxCancels
    /\ LET w == cancelAll([req |-> req, fr |-> fr, bags |-> bags], o)
       IN  req' = w.req /\ fr' = w.fr /\ bags' = w.bags
    /\ UNCHANGED <<hooks, shared, server>>

\* The caller builds the next Request with `owner: o`: the constructor looks
\* the owner's bag up, creates it when there is none, and joins it
Construct(o) ==
    /\ \E r \in Reqs :
         /\ ~req[r].created
         /\ \A x \in Reqs : x < r => req[x].created
         /\ req' = [req EXCEPT ![r] = NewRequest([DefaultInit EXCEPT !.bag = o])]
         /\ bags' = [getOrCreate(bags, o) EXCEPT ![o].requests = addRequest(@, r)]
    /\ UNCHANGED <<fr, hooks, shared, server>>

Step(r, f) ==
    \/ BeforeHookResolves(r, f)
    \/ SendRejected(r, f)
    \/ TransportResponds(r, f)
    \/ TransportFails(r, f)
    \/ AbortRejected(r, f)
    \/ NwHookResolves(r, f)
    \/ ErrHookResolves(r, f)
    \/ SrvHookResolves(r, f)
    \/ RawBodyResolves(r, f)

\* ------------------------------------------------- one request, its life
Init ==
    /\ hooks \in [Mws -> HookProfiles]
    /\ shared = <<1>>
    /\ server = DefaultServer
    /\ \E d \in BOOLEAN :
         req = [r \in Reqs |->
                  IF r = 1
                  THEN NewRequest([DefaultInit EXCEPT !.decoder = d, !.bag = "o1"])
                  ELSE Blank]
    /\ fr = [x \in Reqs \X Frames |-> IdleFrame]
    /\ bags = [o \in Owners |->
                 IF o = "o1" THEN [NoBagYet EXCEPT !.exists = TRUE, !.requests = <<1>>]
                 ELSE NoBagYet]

Next ==
    \E r \in Reqs :
        \/ Start(r)
        \/ Cancel(r)
        \/ \E f \in Frames : Step(r, f)

Spec == Init /\ [][Next]_vars

\* ------------------------------------- several requests and their bags
\* Requests are built while others run. To keep several requests within
\* reach, each is started once, its XHR is always sent, a response leads to a
\* Result, a failure is a network error, and the only
\* hooks are the fatal-network-error notifications.
InitBag ==
    /\ hooks = [m \in Mws |-> {"onFatalNetworkError"}]
    /\ shared = <<1>>
    /\ server = DefaultServer
    /\ req = [r \in Reqs |-> Blank]
    /\ fr = [x \in Reqs \X Frames |-> IdleFrame]
    /\ bags = [o \in Owners |-> NoBagYet]

NextBag ==
    \/ \E o \in Owners : Construct(o) \/ CancelAll(o)
    \/ \E r \in Reqs :
          \/ req[r].starts = 0 /\ Start(r) /\ fr'[<<r, 1>>].pc = "inflight"
          \/ TransportResponds(r, 1) /\ fr'[<<r, 1>>].out = "result"
          \/ TransportFails(r, 1) /\ fr'[<<r, 1>>].out = "network_error"
          \/ AbortRejected(r, 1)

SpecBag == InitBag /\ [][NextBag]_vars

\* ------------------------------------------ the bag's methods, called directly
\* RequestBag.getOrCreate, addRequest and removeRequest are public: a caller
\* may call them on any bag with any Request, whatever the bag holds.
GetOrCreate(o) ==
    /\ ~bags[o].exists
    /\ bags' = getOrCreate(bags, o)
    /\ UNCHANGED <<req, fr, hooks, shared, server>>

AddRequest(o, r) ==
    /\ bags[o].exists /\ req[r].created
    /\ Len(bags[o].requests) < MaxBagLen
    /\ bags' = [bags EXCEPT ![o].requests = addRequest(@, r)]
    /\ UNCHANGED <<req, fr, hooks, shared, server>>

RemoveRequest(o, r) ==
    /\ bags[o].exists /\ req[r].created
    /\ bags' = [bags EXCEPT ![o].requests = removeRequest(@, r)]
    /\ UNCHANGED <<req, fr, hooks, shared, server>>

InitBagApi ==
    /\ hooks = [m \in Mws |-> {"onFatalNetworkError"}]
    /\ shared = <<1>>
    /\ server = DefaultServer
    /\ req = [r \in Reqs |-> NewRequest(DefaultInit)]
    /\ fr = [x \in Reqs \X Frames |-> IdleFrame]
    /\ bags = [o \in Owners |-> NoBagYet]

NextBagApi ==
    \E o \in Owners :
        \/ GetOrCreate(o)
        \/ \E r \in Reqs : AddRequest(o, r) \/ RemoveRequest(o, r)

SpecBagApi == InitBagApi /\ [][NextBagApi]_vars

\* ------------------------------------------------ one request, its timeouts
\* The request is built with any method, body and timeout (0 is a timeout
\* that was set); every middleware implements the three retry hooks.
InitTimeouts == {Undefined, 0, 5000, 45000, 200000}
InitBodies == {[body |-> "undefined", size |-> 0],
               [body |-> "FormData", size |-> UploadThreshold],
               [body |-> "FormData", size |-> UploadThreshold + 1]}

InitTimeout ==
    /\ hooks = [m \in Mws |-> {"shouldRetryNetworkError", "shouldRetryError",
                               "shouldRetryServerError"}]
    /\ shared = <<1>>
    /\ server = DefaultServer
    /\ \E m \in {"GET", "POST"}, t \in InitTimeouts, bd \in InitBodies :
         req = [r \in Reqs |->
                  IF r = 1
                  THEN NewRequest([DefaultInit EXCEPT !.method = m, !.timeout = t,
                                      !.body = bd.body, !.size = bd.size,
                                      !.decoder = TRUE])
                  ELSE Blank]
    /\ fr = [x \in Reqs \X Frames |-> IdleFrame]
    /\ bags = [o \in Owners |-> NoBagYet]

NextTimeout ==
    \E r \in Reqs :
        \/ Start(r)
        \/ SendRejected(r, 1)
        \/ TransportResponds(r, 1)
        \/ TransportFails(r, 1)
        \/ NwHookResolves(r, 1)
        \/ ErrHookResolves(r, 1)
        \/ SrvHookResolves(r, 1)

SpecTimeout == InitTimeout /\ [][NextTimeout]_vars

\* ------------------------------------------- one request, its retry flags
\* The request is built with any shouldRetry and allowErrorRetry, with or
\* without a response decoder, and its errorDecoder field is left as it is or
\* cleared; each middleware implements the three retry hooks or no hook.
RetryHooks == {"shouldRetryNetworkError", "shouldRetryError",
               "shouldRetryServerError"}

InitFlags ==
    /\ hooks \in [Mws -> {{}, RetryHooks}]
    /\ shared = <<1>>
    /\ server = DefaultServer
    /\ \E d \in BOOLEAN, e \in BOOLEAN, sr \in BOOLEAN, ar \in BOOLEAN :
         req = [r \in Reqs |->
                  IF r = 1
                  THEN [NewRequest([DefaultInit EXCEPT !.decoder = d])
                           EXCEPT !.errorDecoder = e, !.shouldRetry = sr,
                                  !.allowErrorRetry = ar]
                  ELSE Blank]
    /\ fr = [x \in Reqs \X Frames |-> IdleFrame]
    /\ bags = [o \in Owners |-> NoBagYet]

NextFlags ==
    \E r \in Reqs :
        \/ req[r].starts = 0 /\ Start(r)
        \/ Cancel(r)
        \/ SendRejected(r, 1)
        \/ TransportResponds(r, 1)
        \/ TransportFails(r, 1)
        \/ AbortRejected(r, 1)
        \/ NwHookResolves(r, 1)
        \/ ErrHookResolves(r, 1)
        \/ SrvHookResolves(r, 1)
        \/ RawBodyResolves(r, 1)

SpecFlags == InitFlags /\ [][NextFlags]_vars

\* ----------------------------------------------------- one request, its url
\* The request is built with or without a version and with any query; no
\* middleware implements a hook.
Queries ==
    {NoQuery, [given |-> TRUE, encoded |-> FALSE, vals |-> <<>>]} \cup
    {[given |-> TRUE, encoded |-> TRUE, vals |-> v] :
        v \in UNION {[1..n -> {"undefined", "x", "y"}] : n \in 0..MaxKeys}}

InitUrl ==
    /\ hooks = [m \in Mws |-> {}]
    /\ shared = <<1>>
    /\ server = DefaultServer
    /\ \E v \in {Undefined, 0, 1}, qy \in Queries :
         req = [r \in Reqs |->
                  IF r = 1
                  THEN NewRequest([DefaultInit EXCEPT !.version = v, !.query = qy])
                  ELSE Blank]
    /\ fr = [x \in Reqs \X Frames |-> IdleFrame]
    /\ bags = [o \in Owners |-> NoBagYet]

NextUrl ==
    \E r \in Reqs :
        \/ req[r].starts = 0 /\ Start(r)
        \/ SendRejected(r, 1)
        \/ TransportResponds(r, 1)
        \/ TransportFails(r, 1)
        \/ RawBodyResolves(r, 1)

SpecUrl == InitUrl /\ [][NextUrl]_vars

\* ------------------------------- one request, hooks that always approve
\* The request of InitFlags with retry hooks that answer true whenever they
\* are asked and leave the request's flags alone. A hook that would approve one retry more than MaxRetries does
\* not return yet (a middleware that waits before it retries). Every hook that
\* can return does return, and every transport call reports its outcome, so
\* each step of start() is taken once it can be.
NwHookApproves(r, f) ==
    /\ fr[<<r, f>>].pc = "nwpoll"
    /\ \E in \in Inputs(req[r]) :
         Commit(NwHookResolved(Bundle(r, f), "true", "none", in))
    /\ req'[r].retries <= MaxRetries

ErrHookApproves(r, f) ==
    /\ fr[<<r, f>>].pc = "errpoll"
    /\ \E in \in Inputs(req[r]) :
         Commit(ErrHookResolved(Bundle(r, f), "true", "none", in))
    /\ req'[r].retries <= MaxRetries

SrvHookApproves(r, f) ==
    /\ fr[<<r, f>>].pc = "srvpoll"
    /\ \E in \in Inputs(req[r]) :
         Commit(SrvHookResolved(Bundle(r, f), "true", "none", in))
    /\ req'[r].retries <= MaxRetries

LiveStep(r) ==
    \/ SendRejected(r, 1)
    \/ TransportResponds(r, 1)
    \/ TransportFails(r, 1)
    \/ AbortRejected(r, 1)
    \/ NwHookApproves(r, 1)
    \/ ErrHookApproves(r, 1)
    \/ SrvHookApproves(r, 1)
    \/ RawBodyResolves(r, 1)

NextLive ==
    \E r \in Reqs :
        \/ req[r].starts = 0 /\ Start(r)
        \/ Cancel(r)
        \/ LiveStep(r)

SpecLive ==
    InitFlags /\ [][NextLive]_vars /\ \A r \in Reqs : WF_vars(LiveStep(r))

\* ---------------- one request, approving hooks, a transport that fails
\* The request is built with any method, timeout and body; at least one of
\* its middlewares implements shouldRetryNetworkError and answers true
\* whenever it is asked; every transport call fails or cannot be sent, and
\* cancel() is not called. A hook whose approval would start retry
\* MaxRetries + 1 does not return.
InitForever ==
    /\ hooks \in [Mws -> {{}, {"shouldRetryNetworkError"}}]
    /\ \E m \in Mws : hooks[m] # {}
    /\ shared = <<1>>
    /\ server = DefaultServer
    /\ \E m \in {"GET", "POST"}, t \in InitTimeouts, bd \in InitBodies :
         req = [r \in Reqs |->
                  IF r = 1
                  THEN NewRequest([DefaultInit EXCEPT !.method = m, !.timeout = t,
                                      !.body = bd.body, !.size = bd.size])
                  ELSE Blank]
    /\ fr = [x \in Reqs \X Frames |-> IdleFrame]
    /\ bags = [o \in Owners |-> NoBagYet]

NextForever ==
    \E r \in Reqs :
        \/ Start(r)
        \/ SendRejected(r, 1)
        \/ TransportFails(r, 1)
        \/ NwHookApproves(r, 1)

SpecForever == InitForever /\ [][NextForever]_vars

\* ------------------------ requests in a bag, notification hooks that throw
\* Two requests are built with the same owner; each middleware implements no
\* hook, an onFatalNetworkError hook that returns, or one that throws.
InitThrow ==
    /\ hooks \in [Mws -> {{}, {"onFatalNetworkError"},
                          {"onFatalNetworkError", FatalThrows}}]
    /\ shared = <<1>>
    /\ server = DefaultServer
    /\ req = [r \in Reqs |->
                IF r <= 2 THEN NewRequest([DefaultInit EXCEPT !.bag = "o1"])
                ELSE Blank]
    /\ fr = [x \in Reqs \X Frames |-> IdleFrame]
    /\ bags = [o \in Owners |->
                 IF o = "o1" THEN [NoBagYet EXCEPT !.exists = TRUE, !.requests = <<1, 2>>]
                 ELSE NoBagYet]

NextThrow ==
    \/ \E o \in Owners : CancelAll(o)
    \/ \E r \in Reqs :
          \/ req[r].starts = 0 /\ Start(r)
          \/ Cancel(r)
          \/ SendRejected(r, 1)
          \/ TransportResponds(r, 1)
          \/ TransportFails(r, 1)
          \/ AbortRejected(r, 1)
          \/ RawBodyResolves(r, 1)

SpecThrow == InitThrow /\ [][NextThrow]_vars

\* -------------------------------------------------- requests of a Server
\* The Server starts without default middlewares; the caller pushes
\* middlewares onto its list, builds requests with build() and starts them,
\* or builds and starts them with request(): two requests in all. A
\* middleware implements onBeforeRequest or no hook, and a transport call
\* that was sent ends with a response.
NextUnbuilt(r) ==
    r <= 2 /\ ~req[r].created /\ \A x \in Reqs : x < r => req[x].created
ServerInits == {DefaultInit, [DefaultInit EXCEPT !.bag = "o1"]}

Adopt(w) ==
    /\ req' = w.req /\ fr' = w.fr /\ bags' = w.bags /\ server' = w.server
    /\ UNCHANGED <<hooks, shared>>

\* The caller calls server.build(init)
ServerBuild(r) ==
    /\ NextUnbuilt(r)
    /\ \E init \in ServerInits : Adopt(build(World, init, r))

\* The caller calls server.request(init)
ServerRequest(r) ==
    /\ NextUnbuilt(r)
    /\ \E init \in ServerInits : \E in \in Inputs(NewRequest(init)) :
         Adopt(request(World, init, r, in))

\* The caller calls server.middlewares.push(m)
PushMiddleware(m) ==
    /\ m \notin Range(server.middlewares)
    /\ server' = [server EXCEPT !.middlewares = Append(@, m)]
    /\ UNCHANGED <<req, fr, bags, hooks, shared>>

InitServer ==
    /\ hooks \in [Mws -> {{}, {"onBeforeRequest"}}]
    /\ shared = <<>>
    /\ server = [host |-> "host", middlewares |-> <<>>]
    /\ req = [r \in Reqs |-> Blank]
    /\ fr = [x \in Reqs \X Frames |-> IdleFrame]
    /\ bags = [o \in Owners |-> NoBagYet]

NextServer ==
    \/ \E m \in Mws : PushMiddleware(m)
    \/ \E r \in Reqs :
          \/ ServerBuild(r)
          \/ ServerRequest(r)
          \/ req[r].starts = 0 /\ Start(r)
          \/ BeforeHookResolves(r, 1)
          \/ SendRejected(r, 1)
          \/ TransportResponds(r, 1)
          \/ RawBodyResolves(r, 1)

SpecServer == InitServer /\ [][NextServer]_vars

\* ------------------------------- one request, its response notifications
\* The request is built with any shouldRetry and allowErrorRetry, with or
\* without a response decoder; each middleware implements onNetworkResponse
\* and the three retry hooks, or no hook.
InitNotify ==
    /\ hooks \in [Mws -> {{}, RetryHooks \cup {"onNetworkResponse"}}]
    /\ shared = <<1>>
    /\ server = DefaultServer
    /\ \E d \in BOOLEAN, sr \in BOOLEAN, ar \in BOOLEAN :
         req = [r \in Reqs |->
                  IF r = 1
                  THEN [NewRequest([DefaultInit EXCEPT !.decoder = d])
                           EXCEPT !.shouldRetry = sr, !.allowErrorRetry = ar]
                  ELSE Blank]
    /\ fr = [x \in Reqs \X Frames |-> IdleFrame]
    /\ bags = [o \in Owners |-> NoBagYet]

SpecNotify == InitNotify /\ [][NextFlags]_vars

\* ------------------------------------- one request, its encoding failures
\* The request is built with an owner and a form-url-encoded body, with or
\* without a query and a response decoder; each middleware implements
\* shouldRetryNetworkError and onFatalNetworkError, or no hook.
InitEncode ==
    /\ hooks \in [Mws -> {{}, {"shouldRetryNetworkError", "onFatalNetworkError"}}]
    /\ shared = <<1>>
    /\ server = DefaultServer
    /\ \E qy \in {NoQuery, [given |-> TRUE, encoded |-> TRUE, vals |-> <<"x">>]},
          d \in BOOLEAN :
         req = [r \in Reqs |->
                  IF r = 1
                  THEN NewRequest([DefaultInit EXCEPT !.body = "urlencoded",
                                      !.query = qy, !.bag = "o1", !.decoder = d])
                  ELSE Blank]
    /\ fr = [x \in Reqs \X Frames |-> IdleFrame]
    /\ bags = [o \in Owners |->
                 IF o = "o1" THEN [NoBagYet EXCEPT !.exists = TRUE, !.requests = <<1>>]
                 ELSE NoBagYet]

NextEncode ==
    \E r \in Reqs :
        \/ req[r].starts = 0 /\ Start(r)
        \/ Cancel(r)
        \/ SendRejected(r, 1)
        \/ TransportResponds(r, 1)
        \/ TransportFails(r, 1)
        \/ AbortRejected(r, 1)
        \/ NwHookResolves(r, 1)
        \/ RawBodyResolves(r, 1)

SpecEncode == InitEncode /\ [][NextEncode]_vars

\* ------------------------------------ two requests of an owner, restarted
\* Two requests are built with the same owner, one after the other, while
\* the caller starts them, starts them again once they settled, and cancels
\* the owner's bag. No middleware implements a hook.
InitMember ==
    /\ hooks = [m \in Mws |-> {}]
    /\ shared = <<1>>
    /\ server = DefaultServer
    /\ req = [r \in Reqs |-> Blank]
    /\ fr = [x \in Reqs \X Frames |-> IdleFrame]
    /\ bags = [o \in Owners |-> NoBagYet]

NextMember ==
    \/ req[2].created = FALSE /\ Construct("o1")
    \/ CancelAll("o1")
    \/ \E r \in Reqs :
          \/ Start(r)
          \/ SendRejected(r, 1)
          \/ TransportResponds(r, 1)
          \/ TransportFails(r, 1)
          \/ AbortRejected(r, 1)
          \/ RawBodyResolves(r, 1)

SpecMember == InitMember /\ [][NextMember]_vars

\* ------------------------------- one request, two invocations of start()
\* The caller calls start() and calls it again while the first invocation is
\* running; fr[<<r, 2>>] is the second invocation. A middleware implements
\* onBeforeRequest or no hook.
StartAgain(r) ==
    /\ req[r].created
    /\ req[r].starts < MaxStarts
    /\ Running(r, 1) /\ ~Running(r, 2)
    /\ \E in \in Inputs(req[r]) :
         Commit(BeginAttempt([Bundle(r, 2) EXCEPT !.q.starts = @ + 1,
                                                  !.fr = IdleFrame], in))

InitReentrant ==
    /\ hooks \in [Mws -> {{}, {"onBeforeRequest"}}]
    /\ shared = <<1>>
    /\ server = DefaultServer
    /\ req = [r \in Reqs |-> IF r = 1 THEN NewRequest(DefaultInit) ELSE Blank]
    /\ fr = [x \in Reqs \X Frames |-> IdleFrame]
    /\ bags = [o \in Owners |-> NoBagYet]

NextReentrant ==
    \E r \in Reqs :
        \/ Start(r)
        \/ StartAgain(r)
        \/ Cancel(r)
        \/ \E f \in Frames :
              \/ BeforeHookResolves(r, f)
              \/ SendRejected(r, f)
              \/ TransportResponds(r, f)
              \/ TransportFails(r, f)
              \/ AbortRejected(r, f)
              \/ RawBodyResolves(r, f)

SpecReentrant == InitReentrant /\ [][NextReentrant]_vars

\* =============================================================== claims
Pc(r) == fr[<<r, 1>>].pc
Out(r) == fr[<<r, 1>>].out
FatalHooked(r) ==
    {m \in Range(getMiddlewares(req[r])) : "onFatalNetworkError" \in hooks[m]}
NwHooked(r) ==
    {j \in 1..Len(getMiddlewares(req[r])) :
        "shouldRetryNetworkError" \in hooks[getMiddlewares(req[r])[j]]}
FailureOutcomes == {"network_timeout", "network_error", "network_abort",
                    "send_error", "encode_error"}

\* Steps, told by what they change
Restarted(r) == req'[r].retries = req[r].retries + 1
Approved(r) == req'[r].approved = req[r].approved + 1
CancelCalled(r) == req'[r].cancels = req[r].cancels + 1
FrameMoved(r) == fr'[<<r, 1>>] # fr[<<r, 1>>]
TransportStarted(r) == Pc(r) # "inflight" /\ fr'[<<r, 1>>].pc = "inflight"
\* The network-error poll of r ends in this step
NwPollEnds(r) ==
    Pc(r) = "nwpoll" /\ (fr'[<<r, 1>>].pc # "nwpoll" \/ Restarted(r))
\* An attempt of r fails and no hook is polled for it
FailsUnpolled(r) ==
    /\ Pc(r) \in {"idle", "done", "before", "inflight", "rejected", "aborted"}
    /\ fr'[<<r, 1>>].pc = "done"
    /\ fr'[<<r, 1>>].out \in FailureOutcomes

\* C1: when an attempt ends in a transport failure, the pipeline is restarted
\* iff a shouldRetryNetworkError hook answered true in the poll and
\* shouldRetry is true when the poll ends, whatever the hooks answer or throw.
C1_RetryIffApproved ==
    [][\A r \in Reqs :
         (NwPollEnds(r) \/ FailsUnpolled(r)) =>
             (Restarted(r) <=> (Approved(r) /\ req'[r].shouldRetry))]_vars

\* The second of two hooks approved after the first answered false, and the
\* pipeline restarted.
C1_Witness ==
    \E r \in Reqs :
        /\ Pc(r) \in {"before", "inflight"}
        /\ req[r].retries = 1 /\ req[r].approved = 1
        /\ req[r].poll = "nw" /\ req[r].last = 2 /\ Cardinality(NwHooked(r)) = 2

\* C2: once shouldRetry is false or didFailNetwork is true when a hook of the
\* network-error poll settles, the poll ends there: the attempt is not retried
\* and no later hook is invoked.
C2_StopsPolling ==
    [][\A r \in Reqs :
         (Pc(r) = "nwpoll" /\ FrameMoved(r)
            /\ (~req'[r].shouldRetry \/ req'[r].didFailNetwork)) =>
             /\ ~Restarted(r)
             /\ fr'[<<r, 1>>].pc = "done"
             /\ req'[r].last = req[r].last]_vars

\* The first of two hooks disabled shouldRetry (cancel() was not called): the
\* request failed and the second hook was not invoked.
C2_Witness ==
    \E r \in Reqs :
        /\ Pc(r) = "done" /\ Out(r) = "network_error"
        /\ req[r].poll = "nw" /\ req[r].last = 1 /\ Cardinality(NwHooked(r)) = 2
        /\ req[r].cancels = 0 /\ ~req[r].shouldRetry

\* C3: after cancel() was called on a Request, shouldRetry and allowErrorRetry
\* are false in every state.
C3_CancelledStaysOff ==
    \A r \in Reqs :
        req[r].cancels > 0 => ~req[r].shouldRetry /\ ~req[r].allowErrorRetry

\* start() went on after a cancel() and settled with the abort error.
C3_Witness ==
    \E r \in Reqs :
        req[r].cancels > 0 /\ Pc(r) = "done" /\ Out(r) = "network_abort"

\* C4: each middleware's onFatalNetworkError hook is invoked at most once for
\* a Request.
C4_FatalAtMostOnce == \A r \in Reqs : \A m \in Mws : req[r].fatal[m] <= 1

\* A request that was retried, cancelled twice and settled: its hook was
\* invoked once.
C4_Witness ==
    \E r \in Reqs :
        /\ req[r].cancels = 2 /\ req[r].retries >= 1 /\ Pc(r) = "done"
        /\ FatalHooked(r) # {} /\ \A m \in FatalHooked(r) : req[r].fatal[m] = 1

\* C5: a cancel() called while no transport call is outstanding invokes the
\* fatal-network-error hooks before it returns, if they were not invoked
\* before; and once cancel() was called twice and start() is not about to
\* resume from an abort, every such hook was invoked exactly once.
C5_CancelNotifiesAtOnce ==
    /\ [][\A r \in Reqs :
            (CancelCalled(r) /\ req[r].outstanding = 0 /\ ~req[r].didFailNetwork) =>
                /\ req'[r].didFailNetwork
                /\ \A m \in FatalHooked(r) : req'[r].fatal[m] = 1]_vars
    /\ [](\A r \in Reqs :
            (req[r].cancels >= 2 /\ Pc(r) \notin {"inflight", "aborted"}) =>
                \A m \in FatalHooked(r) : req[r].fatal[m] = 1)

\* C6: a cancel() called while the transport call is outstanding aborts it;
\* start() then resumes with the network_abort error, polls no retry hook and
\* rejects with that error.
C6_AbortIsTerminal ==
    [][\A r \in Reqs :
         /\ (Pc(r) = "inflight" /\ CancelCalled(r)) =>
                /\ fr'[<<r, 1>>].pc = "aborted"
                /\ fr'[<<r, 1>>].err = "network_abort"
                /\ req'[r].outstanding = 0
         /\ (Pc(r) = "aborted" /\ FrameMoved(r)) =>
                /\ fr'[<<r, 1>>].pc = "done"
                /\ fr'[<<r, 1>>].out = "network_abort"
                /\ req'[r].last = 0 /\ ~Restarted(r)]_vars

\* A request with a network-error hook settled with the abort error.
C6_Witness ==
    \E r \in Reqs :
        /\ Pc(r) = "done" /\ Out(r) = "network_abort"
        /\ NwHooked(r) # {} /\ req[r].poll = "nw" /\ req[r].last = 0

C8_NoAttemptAfterFatal ==
    [][\A r \in Reqs :
         (req[r].didFailNetwork /\ Pc(r) \notin {"idle", "done"}) =>
             ~TransportStarted(r)]_vars

\* C9: when start() has settled with a Result, a network error, a timeout, an
\* abort, a decodable error, a server error or a response-decoder error, the
\* Request is not a member of its bag.
C9_SettledLeavesBag ==
    \A r \in Reqs :
        (/\ Pc(r) = "done" /\ req[r].bag # NoBag
         /\ Out(r) \in {"result", "network_error", "network_timeout",
                        "network_abort", "decoded_error", "server_error",
                        "decode_error"}) =>
            r \notin Range(bags[req[r].bag].requests)

\* C10: RequestBag.cancel calls cancel() on every member and on no other
\* request and leaves the bag empty; a Request built with the same owner
\* afterwards joins the bag and stays in it, not cancelled, until it settles
\* or the bag is cancelled again.
BagCancelled(o) == bags'[o].cancels = bags[o].cancels + 1
C10_CancelAllCancelsMembers ==
    [][/\ \A o \in Owners : BagCancelled(o) =>
            /\ bags'[o].requests = <<>>
            /\ \A r \in Reqs :
                 IF r \in Range(bags[o].requests)
                 THEN /\ CancelCalled(r)
                      /\ ~req'[r].shouldRetry /\ ~req'[r].allowErrorRetry
                      /\ req'[r].XMLHttpRequest = 0 /\ req'[r].outstanding = 0
                      /\ req'[r].didFailNetwork \/ fr'[<<r, 1>>].pc = "aborted"
                 ELSE req'[r] = req[r] /\ fr'[<<r, 1>>] = fr[<<r, 1>>]
       /\ \A r \in Reqs :
            (req'[r].created /\ req'[r].cancels = 0
               /\ fr'[<<r, 1>>].pc # "done") =>
                /\ r \in Range(bags'[req'[r].bag].requests)
                /\ req'[r].shouldRetry /\ req'[r].allowErrorRetry
                /\ ~req'[r].didFailNetwork]_vars

\* Two requests of an owner were cancelled through the bag, and a third one,
\* built afterwards, is the bag's only member and runs uncancelled.
C10_Witness ==
    \E o \in Owners :
        /\ bags[o].cancels = 1 /\ bags[o].requests = <<3>>
        /\ req[3].cancels = 0 /\ req[3].shouldRetry /\ Pc(3) = "inflight"
        /\ \A r \in {1, 2} : req[r].bag = o /\ req[r].cancels = 1

\* The number of times x occurs in the sequence sq
Occurrences(sq, x) == Cardinality({k \in 1..Len(sq) : sq[k] = x})
\* The sequence sq without its elements equal to x, in order
RECURSIVE Without(_, _)
Without(sq, x) ==
    IF sq = <<>> THEN <<>>
    ELSE IF Head(sq) = x THEN Without(Tail(sq), x)
         ELSE <<Head(sq)>> \o Without(Tail(sq), x)

\* C11: removeRequest(r) on a bag that does not hold r leaves the bag as it
\* is; removing r twice gives the bag that removing it once gives; and a
\* removal of r keeps every other member, in order.
C11_RemoveTwiceIsOnce ==
    \A o \in Owners : \A r \in Reqs :
        LET b == bags[o].requests
            once == removeRequest(b, r)
            twice == removeRequest(once, r)
        IN  /\ r \notin Range(b) => once = b
            /\ twice = once
            /\ Without(once, r) = Without(b, r)

\* An attempt of r begins in this step and reaches fetch(): its timeout is
\* fr'[<<r, 1>>].timeout
AttemptBegins(r) ==
    /\ Restarted(r) \/ req'[r].starts = req[r].starts + 1
    /\ fr'[<<r, 1>>].pc \in {"inflight", "rejected"}
\* The transport call of r ends in a timeout in this step
TimedOut(r) ==
    /\ Pc(r) = "inflight"
    /\ \/ fr'[<<r, 1>>].err = "network_timeout"
       \/ fr'[<<r, 1>>].pc = "done" /\ fr'[<<r, 1>>].out = "network_timeout"
LargeUpload(r) == req[r].body = "FormData" /\ req[r].size > 1000000000

\* C12: the attempt a retry starts has a timeout at least that of the attempt
\* before it; an attempt that fails by timeout leaves a stored timeout of at
\* least 30,000 ms, retried or not, and the attempt that retries it runs with
\* at least 30,000 ms; a stored timeout is never lowered.
C12_TimeoutNeverDecreases ==
    [][\A r \in Reqs :
         /\ (Restarted(r) /\ AttemptBegins(r)) =>
                fr'[<<r, 1>>].timeout >= fr[<<r, 1>>].timeout
         /\ TimedOut(r) =>
                /\ req'[r].timeout >= 30000
                /\ req'[r].timeout >= fr[<<r, 1>>].timeout
         /\ (Restarted(r) /\ AttemptBegins(r)
               /\ fr[<<r, 1>>].err = "network_timeout") =>
                fr'[<<r, 1>>].timeout >= 30000
         /\ req[r].timeout # Undefined => req'[r].timeout >= req[r].timeout]_vars

\* A GET request whose first attempt ran with less than 30,000 ms timed out
\* and was retried: the retry runs with 30,000 ms.
C12_Witness ==
    \E r \in Reqs :
        /\ Pc(r) = "inflight" /\ req[r].retries = 1 /\ req[r].poll = "nw"
        /\ req[r].method = "GET" /\ ~LargeUpload(r)
        /\ req[r].timeout = 30000 /\ fr[<<r, 1>>].timeout = 30000

\* The timeout the stored timeout and the method give
BaseTimeout(r) ==
    IF req[r].timeout # Undefined THEN req[r].timeout
    ELSE IF req[r].method = "GET" THEN 10000 ELSE 150000

C14_UploadFloor ==
    [][\A r \in Reqs :
         LargeUpload(r) =>
             /\ AttemptBegins(r) => fr'[<<r, 1>>].timeout >= 60000
             /\ TimedOut(r) => req'[r].timeout >= 60000]_vars

\* A large upload built with a timeout of 5,000 ms timed out and was retried:
\* the stored timeout and the retry's timeout are 60,000 ms.
C14_Witness ==
    \E r \in Reqs :
        /\ LargeUpload(r) /\ Pc(r) = "inflight" /\ req[r].retries = 1
        /\ req[r].poll = "nw"
        /\ req[r].timeout = 60000 /\ fr[<<r, 1>>].timeout = 60000

\* The positions in r's middleware list of the middlewares that implement h
Hooked(r, h) ==
    {j \in 1..Len(getMiddlewares(req[r])) : h \in hooks[getMiddlewares(req[r])[j]]}
\* A response arrives in this step and start() takes it for an error of kind e
Arrives(r, e) ==
    /\ Pc(r) = "inflight"
    /\ \/ fr'[<<r, 1>>].err = e
       \/ fr'[<<r, 1>>].pc = "done" /\ fr'[<<r, 1>>].out = e
\* The poll r awaits at position p ends in this step
PollEnds(r, p) == Pc(r) = p /\ (fr'[<<r, 1>>].pc # p \/ Restarted(r))
\* start() rejects with e in this step, or a hook threw
ThrowsOrHookThrew(r, e) ==
    /\ fr'[<<r, 1>>].pc = "done"
    /\ fr'[<<r, 1>>].out \in {e, "hook_error"}

\* C15: on a decodable error the shouldRetryError hooks are polled iff
\* shouldRetry or allowErrorRetry is true (and a middleware implements the
\* hook); the pipeline restarts iff a hook answered true and one of the two
\* flags is true when the poll ends; otherwise start() rejects with the
\* decoded error (or with what a hook threw).
C15_ErrorRetryGate ==
    [][\A r \in Reqs :
         /\ Arrives(r, "decoded_error") =>
              /\ fr'[<<r, 1>>].pc = "errpoll" <=>
                    /\ req[r].shouldRetry \/ req[r].allowErrorRetry
                    /\ Hooked(r, "shouldRetryError") # {}
              /\ fr'[<<r, 1>>].pc # "errpoll" =>
                    /\ fr'[<<r, 1>>].pc = "done"
                    /\ fr'[<<r, 1>>].out = "decoded_error"
                    /\ req'[r].last = 0 /\ ~Restarted(r)
         /\ PollEnds(r, "errpoll") =>
              /\ Restarted(r) <=>
                    /\ Approved(r)
                    /\ req'[r].shouldRetry \/ req'[r].allowErrorRetry
              /\ ~Restarted(r) => ThrowsOrHookThrew(r, "decoded_error")]_vars

\* A request built with shouldRetry false and allowErrorRetry true was retried
\* after a decodable error.
C15_Witness ==
    \E r \in Reqs :
        /\ Pc(r) = "inflight" /\ req[r].retries = 1 /\ req[r].poll = "err"
        /\ ~req[r].shouldRetry /\ req[r].allowErrorRetry /\ req[r].cancels = 0

\* C16: on a server error the shouldRetryServerError hooks are polled iff
\* shouldRetry is true (and a middleware implements the hook); the pipeline
\* restarts iff a hook answered true and shouldRetry is true when the poll
\* ends; otherwise start() rejects with the server error (or with what a hook
\* threw); and no server-error or network-error poll restarts the pipeline
\* while shouldRetry is false, whatever allowErrorRetry is.
C16_ServerRetryGate ==
    [][\A r \in Reqs :
         /\ Arrives(r, "server_error") =>
              /\ fr'[<<r, 1>>].pc = "srvpoll" <=>
                    /\ req[r].shouldRetry
                    /\ Hooked(r, "shouldRetryServerError") # {}
              /\ fr'[<<r, 1>>].pc # "srvpoll" =>
                    /\ fr'[<<r, 1>>].pc = "done"
                    /\ fr'[<<r, 1>>].out = "server_error"
                    /\ req'[r].last = 0 /\ ~Restarted(r)
         /\ PollEnds(r, "srvpoll") =>
              /\ Restarted(r) <=> (Approved(r) /\ req'[r].shouldRetry)
              /\ ~Restarted(r) => ThrowsOrHookThrew(r, "server_error")
         /\ (Pc(r) \in {"srvpoll", "nwpoll"} /\ Restarted(r)) =>
              req[r].shouldRetry /\ req'[r].shouldRetry
         /\ (Pc(r) = "inflight" /\ ~req[r].shouldRetry) =>
              fr'[<<r, 1>>].pc \notin {"srvpoll", "nwpoll"}]_vars

\* A request built with shouldRetry false and allowErrorRetry true, with a
\* shouldRetryServerError hook, got a server error: no hook was polled and
\* start() rejected with the error.
C16_Witness ==
    \E r \in Reqs :
        /\ Pc(r) = "done" /\ Out(r) = "server_error"
        /\ ~req[r].shouldRetry /\ req[r].allowErrorRetry /\ req[r].cancels = 0
        /\ Hooked(r, "shouldRetryServerError") # {}
        /\ req[r].poll = "srv" /\ req[r].last = 0 /\ req[r].retries = 0

\* The state after the response resp has arrived for the transport call of r
\* that is outstanding
After(r, resp) == ResponseArrived(Bundle(r, 1), resp)
\* start() took the response for an error of kind e on the path of poll k:
\* it awaits a hook of that poll, or it has rejected with the error
OnPath(r, a, k, pos, h, e) ==
    /\ a.q.poll = k
    /\ \/ a.fr.pc = pos /\ a.fr.err = e /\ a.fr.i \in Hooked(r, h)
       \/ a.fr.pc = "done" /\ a.fr.out = e
OnErrorPath(r, a) ==
    OnPath(r, a, "err", "errpoll", "shouldRetryError", "decoded_error")
OnServerPath(r, a) ==
    OnPath(r, a, "srv", "srvpoll", "shouldRetryServerError", "server_error")

C19_DecodeErrorNotRetried ==
    \A r \in Reqs : (Pc(r) = "inflight" /\ req[r].decoder) =>
        LET a == After(r, [ok |-> TRUE, json |-> TRUE, parses |-> TRUE,
                           decodes |-> FALSE])
        IN  /\ a.fr.pc = "done" /\ a.fr.out = "decode_error"
            /\ a.q.poll = req[r].poll /\ a.q.last = req[r].last
            /\ a.q.approved = req[r].approved
            /\ a.q.retries = req[r].retries

\* start() rejected with a decode error on a request whose middlewares all
\* implement the retry hooks and whose retry flags are both true.
C19_Witness ==
    \E r \in Reqs :
        /\ Pc(r) = "done" /\ Out(r) = "decode_error" /\ req[r].decoder
        /\ req[r].shouldRetry /\ req[r].allowErrorRetry
        /\ \A m \in Mws : hooks[m] = RetryHooks
        /\ req[r].poll = "none"

\* The caller's start() begins an attempt of r in this step
Started(r) == req'[r].starts = req[r].starts + 1
\* fetch() is called for r in this step: the call is sent, or it throws
FetchCalled(r) ==
    \/ TransportStarted(r)
    \/ Pc(r) # "rejected" /\ fr'[<<r, 1>>].pc = "rejected"
\* The flag that gates the poll r is in still allows a retry after this step
StillAllowed(r) ==
    IF Pc(r) = "errpoll" THEN req'[r].shouldRetry \/ req'[r].allowErrorRetry
    ELSE req'[r].shouldRetry

Implementing(h, ms) == SelectSeq(ms, LAMBDA m : h \in hooks[m])
\* The order the claim gives for the invocations of hook h on r: the shared
\* middlewares in registration order, then r's own
SharedThenOwn(r, h) ==
    Implementing(h, shared) \o Implementing(h, req[r].middlewares)
\* The hook start() awaits at position p
HookAt(p) ==
    CASE p = "before" -> "onBeforeRequest"
      [] p = "nwpoll" -> "shouldRetryNetworkError"
      [] p = "errpoll" -> "shouldRetryError"
      [] OTHER -> "shouldRetryServerError"
Awaiting == {"before", "nwpoll", "errpoll", "srvpoll"}
\* The number of middlewares up to position i of r's list that implement h
Rank(r, h, i) == Cardinality({j \in Hooked(r, h) : j <= i})
\* start() took a response in this step
Responded(r) ==
    /\ Pc(r) = "inflight"
    /\ \/ fr'[<<r, 1>>].pc = "rawawait"
       \/ fr'[<<r, 1>>].err \in {"decoded_error", "server_error"}
       \/ /\ fr'[<<r, 1>>].pc = "done"
          /\ fr'[<<r, 1>>].out \in {"result", "decode_error", "decoded_error",
                                    "server_error"}

\* C21: a Request built by Server.build has the Server's middlewares as its
\* own list; the hooks of every type are invoked in the order shared
\* middlewares, then own middlewares, each list in registration order: the
\* k-th hook start() awaits in a loop is the k-th of that order, and the
\* fatal-network-error and network-response notifications run through it.
C21_SharedThenOwn ==
    [][\A r \in Reqs :
         LET f == fr[<<r, 1>>]
             g == fr'[<<r, 1>>]
             fresh == g.pc # f.pc \/ Restarted(r) \/ Started(r)
             h == HookAt(g.pc)
             k == IF fresh THEN 1 ELSE Rank(r, h, f.i) + 1
         IN  /\ req'[r].created => req'[r].middlewares = serverMiddlewares
             /\ (g.pc \in Awaiting /\ (fresh \/ g.i # f.i)) =>
                    /\ k <= Len(SharedThenOwn(r, h))
                    /\ getMiddlewares(req'[r])[g.i] = SharedThenOwn(r, h)[k]
             /\ req'[r].didFailNetwork =>
                    req'[r].notified = SharedThenOwn(r, "onFatalNetworkError")
             /\ Responded(r) =>
                    req'[r].responded = SharedThenOwn(r, "onNetworkResponse")]_vars

\* Both middlewares implement every hook: the network-response and the
\* fatal-network-error notifications went to the shared one first, and the
\* network-error poll reached the request's own one second.
C21_Witness ==
    \E r \in Reqs :
        /\ req[r].created /\ shared = <<1>> /\ Head(req[r].middlewares) = 2
        /\ req[r].notified = <<1, 2>> /\ req[r].responded = <<1, 2>>
        /\ req[r].poll = "nw" /\ req[r].last = 2

\* The positions of the onBeforeRequest hooks in r's middleware list
BeforeHooks(r) == Hooked(r, "onBeforeRequest")

\* C22: every attempt, the caller's and every retry, begins at the first
\* onBeforeRequest hook; the hooks are awaited one after the other, none
\* skipped; and fetch() is called for the attempt only in the step in which
\* its last hook resolves (or at once when no middleware has the hook).
C22_BeforeHooksThenTransport ==
    [][\A r \in Reqs :
         LET f == fr[<<r, 1>>]
             g == fr'[<<r, 1>>]
             begins == Started(r) \/ Restarted(r)
             B == BeforeHooks(r)
         IN  /\ begins =>
                    IF B = {} THEN g.pc # "before"
                    ELSE /\ g.pc = "before" /\ g.i \in B
                         /\ \A j \in B : g.i <= j
             /\ (f.pc = "before" /\ g.pc = "before" /\ g # f) =>
                    /\ ~begins /\ g.i \in B /\ g.i > f.i
                    /\ \A j \in B : j <= f.i \/ j >= g.i
             /\ FetchCalled(r) =>
                    \/ B = {} /\ begins
                    \/ /\ ~begins /\ f.pc = "before"
                       /\ f.i \in B /\ \A j \in B : j <= f.i]_vars

\* The transport call of a retry is outstanding on a request with two
\* onBeforeRequest hooks.
C22_Witness ==
    \E r \in Reqs :
        /\ Pc(r) = "inflight" /\ req[r].retries = 1
        /\ Cardinality(BeforeHooks(r)) = 2

\* start() rejects in this step with the error of an attempt that failed
\* before any response
FailsForGood(r) ==
    /\ Pc(r) # "done" /\ fr'[<<r, 1>>].pc = "done"
    /\ fr'[<<r, 1>>].out \in FailureOutcomes
InBag(b, r) == req[r].bag # NoBag /\ r \in Range(b[req[r].bag].requests)

\* C23: when start() rejects with the error of a failed attempt,
\* didFailNetwork is true, every onFatalNetworkError hook was invoked exactly
\* once for the Request, and the Request is not in its bag; when this is the
\* step that invokes the hooks, they run while the Request still is in the
\* bag it was in before: notification comes before deregistration.
C23_NotifyDeregisterThrow ==
    [][\A r \in Reqs :
         FailsForGood(r) =>
             /\ req'[r].didFailNetwork
             /\ \A m \in FatalHooked(r) : req'[r].fatal[m] = 1
             /\ ~InBag(bags', r)
             /\ ~req[r].didFailNetwork =>
                    req'[r].sawMember = InBag(bags, r)]_vars

\* start() rejected with a network error on a request that was never
\* cancelled: its hooks ran once, while it was a member of its bag.
C23_Witness ==
    \E r \in Reqs :
        /\ Pc(r) = "done" /\ Out(r) = "network_error" /\ req[r].cancels = 0
        /\ req[r].sawMember /\ req[r].bag # NoBag
        /\ FatalHooked(r) # {} /\ \A m \in FatalHooked(r) : req[r].fatal[m] = 1

\* C24: in the decodable-error poll and in the server-error poll, once the
\* gating flag is false when a hook settles, the poll ends there: no later
\* hook is invoked and the pipeline is not restarted.
C24_ErrorPollsStopEarly ==
    [][\A r \in Reqs :
         (Pc(r) \in {"errpoll", "srvpoll"} /\ FrameMoved(r) /\ ~StillAllowed(r)) =>
             /\ ~Restarted(r)
             /\ fr'[<<r, 1>>].pc = "done"
             /\ req'[r].last = req[r].last]_vars

\* C25: in every retry poll, while the gating flags allow a retry, the hook
\* that follows the one that just answered is invoked next, also when a hook
\* already answered true.
C25_EveryHookPolled ==
    [][\A r \in Reqs :
         LET f == fr[<<r, 1>>]
             g == fr'[<<r, 1>>]
             later == {j \in Hooked(r, HookAt(f.pc)) : j > f.i}
         IN  (/\ f.pc \in {"nwpoll", "errpoll", "srvpoll"} /\ g # f
              /\ ~(g.pc = "done" /\ g.out = "hook_error")
              /\ StillAllowed(r) /\ ~req'[r].didFailNetwork
              /\ later # {}) =>
                 /\ g.pc = f.pc /\ ~Restarted(r)
                 /\ g.i \in later /\ \A j \in later : g.i <= j]_vars

\* The pairs the claim gives for the values vals from key k on
RECURSIVE DefinedPairs(_, _)
DefinedPairs(vals, k) ==
    IF k > Len(vals) THEN <<>>
    ELSE (IF vals[k] = "undefined" THEN <<>>
          ELSE <<[enc |-> k], "=", [enc |-> vals[k]]>>)
         \o (IF \E j \in (k + 1)..Len(vals) : vals[j] # "undefined"
                  /\ vals[k] # "undefined"
             THEN <<"&">> ELSE <<>>)
         \o DefinedPairs(vals, k + 1)
\* The query string the claim gives for r
ClaimedQueryString(r) ==
    IF req[r].query.given /\ req[r].query.encoded
    THEN DefinedPairs(req[r].query.vals, 1) ELSE <<>>

\* C26: the url of an attempt is host, then "/v" and the version when one is
\* set, then the path, then "?" and the query string when the query string is
\* not empty; the query string holds key=value for every key whose value is
\* not undefined, in key order, joined by "&".
C26_UrlOfAttempt ==
    \A r \in Reqs : Pc(r) \in {"inflight", "rejected"} =>
        fr[<<r, 1>>].url =
            <<"host">>
            \o (IF req[r].version # Undefined THEN <<"/v", req[r].version>> ELSE <<>>)
            \o <<"path">>
            \o (IF ClaimedQueryString(r) # <<>>
                THEN <<"?">> \o ClaimedQueryString(r) ELSE <<>>)

\* C27: once cancel() was called on a Request whose start() is running, and
\* given that every hook that can return does and every transport call
\* reports, start() settles, although every retry hook answers true
C27_CancelledStartSettles ==
    \A r \in Reqs : (req[r].cancels > 0 /\ Running(r, 1)) ~> ~Running(r, 1)

\* a retry was approved and made, cancel() aborted the call in flight, and
\* start() settled with the abort
C27_Witness ==
    \E r \in Reqs : /\ req[r].cancels > 0 /\ req[r].retries > 0
                     /\ Pc(r) = "done" /\ Out(r) = "network_abort"

\* C28: the handle is non-null only while a transport call of the Request is
\* outstanding, and it is then the handle of that call
C28_HandleOnlyWhileOutstanding ==
    \A r \in Reqs :
        req[r].XMLHttpRequest # 0 =>
            /\ req[r].outstanding > 0
            /\ fr[<<r, req[r].XMLHttpRequest>>].pc = "inflight"

\* C29: no Request occurs more than once in a bag, and a bag does not hold r
\* once removeRequest(r) returned
C29_BagIsDeduplicated ==
    [][\A o \in Owners, r \in Reqs :
          /\ Occurrences(bags'[o].requests, r) <= 1
          /\ RemoveRequest(o, r) => r \notin Range(bags'[o].requests)]_vars

\* The step builds Request r with owner o
Built(o, r) == ~req[r].created /\ req'[r].created /\ req'[r].bag = o

\* C30: getOrCreate(o) gives the bag o already has, with its members, and
\* creates an empty one only when o has none, without touching the bag of
\* another owner; a bag comes into being in no other way; and cancelAll(o) for
\* an owner without a bag changes nothing.
C30_OneBagPerOwner ==
    [][\A o \in Owners :
          /\ \A r \in Reqs : Built(o, r) =>
                /\ bags'[o].exists
                /\ bags'[o].requests = bags[o].requests \o <<r>>
                /\ bags'[o].cancels = bags[o].cancels
                /\ \A p \in Owners \ {o} : bags'[p] = bags[p]
          /\ bags[o].exists =>
                /\ bags'[o].exists
                /\ getOrCreate(bags, o) = bags
          /\ ~bags[o].exists =>
                /\ bags[o].requests = <<>>
                /\ getOrCreate(bags, o) = [bags EXCEPT ![o].exists = TRUE]
                /\ bags'[o].exists => \E r \in Reqs : Built(o, r)
                /\ LET w == [req |-> req, fr |-> fr, bags |-> bags]
                   IN  cancelAll(w, o) = w]_vars

\* One owner's bag holds the two requests built for it, the first of them in
\* flight, and the other owner has no bag
C30_Witness ==
    \E o, p \in Owners :
        /\ bags[o].requests = <<1, 2>> /\ Pc(1) = "inflight"
        /\ ~bags[p].exists

\* C31: with a shouldRetryNetworkError hook that always approves, a transport
\* that always fails and no cancel(), start() never settles: every poll ends
\* in a new attempt, whatever the number of retries made so far
C31_RetriesWithoutBound ==
    [][\A r \in Reqs :
          /\ fr'[<<r, 1>>].pc # "done"
          /\ NwPollEnds(r) => Restarted(r) /\ FetchCalled(r)]_vars

\* the request made as many retries as the model lets the hook approve, and
\* its latest attempt failed and is polled again
C31_Witness ==
    \E r \in Reqs : req[r].retries = MaxRetries /\ Pc(r) = "nwpoll"

\* C32: no call of cancel() throws, in whatever state the Request is and
\* whatever its middlewares' hooks do
C32_CancelNeverThrows == \A r \in Reqs : ~req[r].cancelThrew

\* C33: a step that builds a Request leaves the Server as it was and gives
\* the Request the Server's middlewares of that moment, which it keeps
\* whatever is pushed onto the Server's list later; nothing but the caller's
\* own push changes the Server, and its host never changes; and a Request
\* built and started in one step by request(init) is in the state that
\* build(init) followed by start() leaves
C33_ServerIsStateless ==
    [][/\ server'.host = server.host
       /\ server' # server => req' = req /\ fr' = fr /\ bags' = bags
       /\ \A r \in Reqs :
            /\ ~req[r].created /\ req'[r].created =>
                 /\ server' = server
                 /\ req'[r].middlewares = server.middlewares
            /\ req[r].created => req'[r].middlewares = req[r].middlewares
            /\ ~req[r].created /\ req'[r].starts = 1 =>
                 \E init \in ServerInits : \E in \in Inputs(NewRequest(init)) :
                    [req |-> req', fr |-> fr', bags |-> bags', server |-> server']
                        = start(build(World, init, r), r, in)]_vars

\* a Request built while the Server had one default middleware runs with
\* that one, the Server's list having grown since; another Request was built
\* and started in one step with the longer list
C33_Witness ==
    \E r, x \in Reqs :
        /\ req[r].created /\ Len(req[r].middlewares) = 1
        /\ Len(server.middlewares) = 2 /\ Pc(r) = "inflight"
        /\ req[x].middlewares = server.middlewares /\ req[x].starts = 1

\* C34: a step in which start() takes a response invokes the onNetworkResponse
\* hook of every middleware that has one, once each, whatever the response
\* is and whatever its classification does next (a result, an error thrown,
\* a retry poll that starts); no other step invokes them: not a timeout, a
\* network error, an abort or a failure to send
C34_ResponseNotifiesOnce ==
    [][\A r \in Reqs :
          /\ Responded(r) =>
                req'[r].responded = Implementing("onNetworkResponse",
                                                 getMiddlewares(req[r]))
          /\ ~Responded(r) => req'[r].responded = req[r].responded
          /\ Pc(r) = "inflight" =>
                \A resp \in Responses :
                    After(r, resp).q.responded =
                        Implementing("onNetworkResponse", getMiddlewares(req[r]))]_vars

\* both middlewares were told of a response that was a server error, and
\* the first shouldRetryServerError hook is awaited
C34_Witness ==
    \E r \in Reqs : Len(req[r].responded) = 2 /\ Pc(r) = "srvpoll"

\* The attempt of r fails in this step with the error code e
FailsWith(r, e) ==
    /\ Pc(r) \in {"inflight", "aborted"}
    /\ \/ fr'[<<r, 1>>].err = e /\ fr'[<<r, 1>>].pc = "nwpoll"
       \/ fr'[<<r, 1>>].pc = "done" /\ fr'[<<r, 1>>].out = e

\* C35: a timeout, a network error and an abort reject with the three codes
\* network_timeout, network_error and network_abort; a step changes the
\* stored timeout of a Request only when its transport call times out, so
\* that a network error, an abort, a failure to send, a response of any
\* status and every hook leave it as it is
C35_OnlyTimeoutEscalates ==
    [][/\ Rejection("ontimeout") = "network_timeout"
       /\ Rejection("onerror") = "network_error"
       /\ Rejection("onabort") = "network_abort"
       /\ \A r \in Reqs :
            /\ req'[r].timeout # req[r].timeout => TimedOut(r)
            /\ \A e \in {"network_error", "network_abort"} :
                   FailsWith(r, e) => req'[r].timeout = req[r].timeout]_vars

\* an attempt timed out and raised the stored timeout, the retry was aborted
\* by cancel(), and start() threw the abort with the stored timeout as the
\* timeout left it
C35_Witness ==
    \E r \in Reqs :
        /\ req[r].timeout = TimeoutEscalated /\ req[r].retries > 0
        /\ Pc(r) = "done" /\ Out(r) = "network_abort"

\* C36: once cancel() was called, no retry is made, a transport call is begun
\* only by a start() that resumes from its onBeforeRequest hooks, and no
\* start() enters these hooks or begins a call any more: so the Request
\* makes at most one further call, that of the attempt whose hooks were
\* running when cancel() came
C36_OneMoreAttemptAtMost ==
    [][\A r \in Reqs : req[r].cancels > 0 =>
          /\ ~Restarted(r)
          /\ FetchCalled(r) => Pc(r) = "before"
          /\ Started(r) => ~FetchCalled(r) /\ fr'[<<r, 1>>].pc # "before"]_vars

\* An attempt of r begins in this step and its encoding fails
EncodingFails(r) ==
    /\ Started(r) \/ Restarted(r) \/ Pc(r) = "before"
    /\ \/ fr'[<<r, 1>>].pc = "nwpoll" /\ fr'[<<r, 1>>].err = "encode_error"
       \/ fr'[<<r, 1>>].pc = "done" /\ fr'[<<r, 1>>].out = "encode_error"

\* C37: an attempt whose encoding fails makes no transport call; the
\* shouldRetryNetworkError hooks are polled with the failure under the
\* conditions under which they are polled with a transport failure; a poll
\* made for it ends in a retry or in start() throwing; and when start()
\* throws the failure, the fatal-network-error hooks were notified, while the
\* Request was in its bag if this step notified them, and the Request has
\* left its bag
C37_EncodingFailsLikeTransport ==
    [][\A r \in Reqs :
          /\ EncodingFails(r) =>
                /\ ~FetchCalled(r)
                /\ req'[r].outstanding = req[r].outstanding
                /\ fr'[<<r, 1>>].pc = "nwpoll" <=>
                      /\ req[r].shouldRetry /\ ~req[r].didFailNetwork
                      /\ NwHooked(r) # {}
          /\ (Pc(r) = "nwpoll" /\ fr[<<r, 1>>].err = "encode_error"
                /\ NwPollEnds(r)) =>
                \/ Restarted(r)
                \/ fr'[<<r, 1>>].pc = "done"
                     /\ fr'[<<r, 1>>].out \in {"encode_error", "hook_error"}
          /\ (Pc(r) # "done" /\ fr'[<<r, 1>>].pc = "done"
                /\ fr'[<<r, 1>>].out = "encode_error") =>
                /\ req'[r].didFailNetwork
                /\ \A m \in FatalHooked(r) : req'[r].fatal[m] = 1
                /\ ~InBag(bags', r)
                /\ ~req[r].didFailNetwork => req'[r].sawMember = InBag(bags, r)]_vars

\* the encoding failed, a hook approved a retry, the encoding failed again
\* and was not retried: start() threw it after the notification, made
\* while the Request was in its bag
C37_Witness ==
    \E r \in Reqs :
        /\ Pc(r) = "done" /\ Out(r) = "encode_error" /\ req[r].retries = 1
        /\ req[r].cancels = 0 /\ req[r].outstanding = 0
        /\ req[r].didFailNetwork /\ req[r].sawMember /\ ~InBag(bags, r)
        /\ req[r].notified # <<>>

\* The outcomes of start() that follow a response
ResponseOutcomes == {"result", "decoded_error", "server_error", "decode_error"}

C39_MemberFromConstruction ==
    [][\A o \in Owners : \A r \in Reqs :
          /\ Built(o, r) =>
                /\ r \in Range(bags'[o].requests)
                /\ req'[r].starts = 0
          /\ Occurrences(bags'[o].requests, r) > Occurrences(bags[o].requests, r)
                => Built(o, r)
          /\ (Pc(r) # "done" /\ fr'[<<r, 1>>].pc = "done") =>
                \A x \in Reqs \ {r} :
                    Occurrences(bags'[o].requests, x) =
                    Occurrences(bags[o].requests, x)]_vars

\* the bag was cancelled while Request 1 was in flight, Request 2 was built
\* afterwards, Request 1 settled with the abort and was started again: the
\* bag holds Request 2 and nothing else
C39_Witness ==
    \E o \in Owners :
        /\ bags[o].cancels = 1 /\ bags[o].requests = <<2>>
        /\ req[1].cancels = 1 /\ req[1].starts = 2 /\ Pc(1) = "inflight"
        /\ req[2].cancels = 0 /\ req[2].starts = 0

\* The transport call of invocation f of r.start() is outstanding
InFlight(r, f) == fr[<<r, f>>].pc = "inflight"
Other(f) == 3 - f

\* C40: a start() called while another invocation is running runs the
\* pipeline like any other; an invocation that sends its call makes the
\* handle refer to that call and leaves the call of the other invocation
\* outstanding; while both calls are outstanding the handle refers to one of
\* them; and a cancel() that comes then aborts the call the handle refers to
\* and no other: the other invocation stays as it was, its call outstanding
C40_ReentrantStart ==
    [][\A r \in Reqs :
          /\ (Started(r) /\ Running(r, 1)) =>
                fr'[<<r, 2>>].pc \in {"before", "inflight", "rejected"}
          /\ \A f \in Frames :
                (~InFlight(r, f) /\ fr'[<<r, f>>].pc = "inflight") =>
                    /\ req'[r].XMLHttpRequest = f
                    /\ req'[r].outstanding = req[r].outstanding + 1
                    /\ fr'[<<r, Other(f)>>] = fr[<<r, Other(f)>>]
          /\ (InFlight(r, 1) /\ InFlight(r, 2)) =>
                /\ req[r].outstanding = 2
                /\ req[r].XMLHttpRequest \in Frames
                /\ CancelCalled(r) =>
                      LET x == req[r].XMLHttpRequest
                      IN  /\ fr'[<<r, x>>].pc = "aborted"
                          /\ fr'[<<r, Other(x)>>] = fr[<<r, Other(x)>>]
                          /\ req'[r].outstanding = 1
                          /\ req'[r].XMLHttpRequest = 0]_vars

\* the call of the first invocation was sent after that of the second,
\* cancel() aborted it, and the second invocation returned a Result
C40_Witness ==
    \E r \in Reqs :
        /\ req[r].cancels = 1 /\ req[r].starts = 2
        /\ fr[<<r, 1>>].pc = "done" /\ fr[<<r, 1>>].out = "network_abort"
        /\ fr[<<r, 2>>].pc = "done" /\ fr[<<r, 2>>].out = "result"

====
